---- MODULE Spec2Model ----
(***************************************************************************)
(* A model of leptonica's string array (sarray.c): the reference-counted   *)
(* growable array of heap strings, its shell sort and its text             *)
(* serialization.                                                          *)
(*                                                                         *)
(* A C string is a sequence of byte values 1..255 (the terminating NUL is  *)
(* implicit).  A pointer to a heap string is an index into the heap hp;    *)
(* the null pointer is 0.                                                  *)
(***************************************************************************)
EXTENDS Integers, Sequences, FiniteSets, TLC

\* ------------------------------------------------------------------------
\* Bounds of the model
\* ------------------------------------------------------------------------
MaxSortLen == 5
MaxHeap == 4       \* heap strings allocated in one run
MaxHeapOwn == 2    \* the same, in the runs that mix every call (SpecOwn)
MaxHeapGrow == 3   \* the same, in the runs that grow and shrink arrays (SpecGrow)
MaxSa == 2         \* array instances created in one run
MaxSaGrow == 1     \* the same, in SpecGrow
MaxHandles == 2    \* SARRAY* variables the caller holds
MaxOwned == 1      \* heap strings the caller owns at one time
MaxDelta == 2      \* largest |delta| passed to sarrayChangeRefcount
MaxRefcount == 3   \* largest |refcount| a run reaches
MaxIOLen == 2      \* longest of the short arrays written and read back
MaxJoinLen == 3    \* longest of the arrays converted to one string
MaxTextLen == 4    \* longest of the texts split into lines and into words
MaxReflowLen == 4  \* longest of the word arrays converted to lines
MaxLineSize == 8   \* largest linesize given to sarrayConvertWordsToLines
MaxCompareLen == 2 \* longest of the strings given to stringCompareLexical
MaxFailLen == 3    \* longest of the arrays added to while an allocation fails

\* ------------------------------------------------------------------------
\* Program constants
\* ------------------------------------------------------------------------
INITIAL_PTR_ARRAYSIZE == 50
L_BUF_SIZE == 512
SARRAY_VERSION_NUMBER == 1
L_INSERT == 0
L_COPY == 1
L_SORT_INCREASING == 1
L_SORT_DECREASING == 2
L_NOCOPY == 0
UNDEF == -1
SP == 32
NL == 10
TAB == 9

NULL == 0
\* The address of a string that is not on the modelled heap (a literal, a
\* caller's buffer).
STATIC == 0 - 1

VARIABLES
  charIsSigned,  \* whether the build's plain char is signed (implementation-defined)
  srt,           \* the sort harness: input array, order and result
  hp,            \* the heap strings: hp[p] = [val, frees], frees counts FREE(p)
  sas,           \* the SARRAY structs: [array, nalloc, n, refcount, frees]
  handle,        \* the caller's SARRAY* variables: a struct's index, or NULL
  owned,         \* pointers to the heap strings the caller owns
  netDelta,      \* per struct: the net change made by direct sarrayChangeRefcount calls
  last,          \* the last call: [op, ret], its name and the value it returned
  heapLimit,     \* [heap, sa]: the heap strings and the structs a run may allocate
  io             \* the stream harness: [phase, kind, strings, file, file2]

heapVars == <<hp, sas, handle, owned, netDelta, last, heapLimit>>
vars == <<charIsSigned, srt, heapVars, io>>

\* ------------------------------------------------------------------------
\* Bytes and strings
\* ------------------------------------------------------------------------
Min(a, b) == IF a < b THEN a ELSE b

\* The value of a byte read through a plain char.
CharVal(b) == IF charIsSigned /\ b >= 128 THEN b - 256 ELSE b

\* ------------------------------------------------------------------------
\* stringCompareLexical(): 1 if str1 > str2, 0 otherwise
\* ------------------------------------------------------------------------
RECURSIVE CompareFrom(_, _, _, _)
CompareFrom(str1, str2, i, len) ==
  IF i >= len
    THEN (IF Len(str1) > Len(str2) THEN 1 ELSE 0)
    ELSE IF str1[i + 1] = str2[i + 1]
      THEN CompareFrom(str1, str2, i + 1, len)
      ELSE IF CharVal(str1[i + 1]) > CharVal(str2[i + 1]) THEN 1 ELSE 0

stringCompareLexical(str1, str2) ==
  CompareFrom(str1, str2, 0, Min(Len(str1), Len(str2)))

\* ------------------------------------------------------------------------
\* sarraySort(): the shell sort over the pointer array; mem gives the
\* string a pointer points to.  Indices i, j, gap are the C (0-based) ones.
\* ------------------------------------------------------------------------
SwapSlots(array, a, b) == [array EXCEPT ![a + 1] = array[b + 1], ![b + 1] = array[a + 1]]

SortMustSwap(array, j, gap, sortorder, mem) ==
  \/ sortorder = L_SORT_INCREASING
       /\ stringCompareLexical(mem[array[j + 1]], mem[array[j + gap + 1]]) = 1
  \/ sortorder = L_SORT_DECREASING
       /\ stringCompareLexical(mem[array[j + gap + 1]], mem[array[j + 1]]) = 1

RECURSIVE SortLoopJ(_, _, _, _, _)
SortLoopJ(array, j, gap, sortorder, mem) ==
  IF j < 0 THEN array
  ELSE IF SortMustSwap(array, j, gap, sortorder, mem)
    THEN SortLoopJ(SwapSlots(array, j, j + gap), j - gap, gap, sortorder, mem)
    ELSE SortLoopJ(array, j - gap, gap, sortorder, mem)

RECURSIVE SortLoopI(_, _, _, _, _, _)
SortLoopI(array, i, n, gap, sortorder, mem) ==
  IF i >= n THEN array
  ELSE SortLoopI(SortLoopJ(array, i - gap, gap, sortorder, mem),
                 i + 1, n, gap, sortorder, mem)

\* A shell sort that stops before the pass with gap 1.
RECURSIVE SortLoopGapNoUnitPass(_, _, _, _, _)
SortLoopGapNoUnitPass(array, gap, n, sortorder, mem) ==
  IF gap <= 1 THEN array
  ELSE SortLoopGapNoUnitPass(SortLoopI(array, gap, n, gap, sortorder, mem),
                             gap \div 2, n, sortorder, mem)

RECURSIVE SortLoopGap(_, _, _, _, _)
SortLoopGap(array, gap, n, sortorder, mem) ==
  IF gap <= 0 THEN array
  ELSE SortLoopGap(SortLoopI(array, gap, n, gap, sortorder, mem),
                   gap \div 2, n, sortorder, mem)

ShellSort(array, n, sortorder, mem) == SortLoopGap(array, n \div 2, n, sortorder, mem)

\* ------------------------------------------------------------------------
\* The memory the library works on: M = [hp, sas].  Every function below
\* returns Ret(M', r): the memory it leaves and the value it returns.
\* ------------------------------------------------------------------------
Ret(M, r) == [M |-> M, ret |-> r]

\* A char* argument: its address and the bytes it points to.
StrArg(p, v) == [ptr |-> p, val |-> v]
StrAt(M, p) == IF p = NULL THEN StrArg(NULL, <<>>) ELSE StrArg(p, M.hp[p].val)

\* FREE(p).  What a freed block holds is indeterminate and never read
\* again; the model keeps only how often the block was freed.
Free(H, p) == IF p = NULL THEN H ELSE [H EXCEPT ![p] = [val |-> <<>>, frees |-> @.frees + 1]]

FreeStruct(sa) ==
  [array |-> <<>>, nalloc |-> 0, n |-> 0, refcount |-> 0, frees |-> sa.frees + 1]

\* stringNew(): a fresh heap copy of the bytes
stringNew(M, val) ==
  Ret([M EXCEPT !.hp = Append(@, [val |-> val, frees |-> 0])], Len(M.hp) + 1)

\* sarrayCreate()
sarrayCreate(M, n) ==
  LET nn == IF n <= 0 THEN INITIAL_PTR_ARRAYSIZE ELSE n
      sa == [array |-> [k \in 1..nn |-> NULL], nalloc |-> nn, n |-> 0,
             refcount |-> 1, frees |-> 0]
  IN Ret([M EXCEPT !.sas = Append(@, sa)], Len(M.sas) + 1)

\* sarrayGetCount()
sarrayGetCount(M, sa) == IF sa = NULL THEN 0 ELSE M.sas[sa].n

\* sarrayGetRefcount()
sarrayGetRefcount(M, sa) == IF sa = NULL THEN UNDEF ELSE M.sas[sa].refcount

\* A change of the count that frees the struct once the count is not positive.
sarrayChangeRefcountDestroys(M, sa, delta) ==
  IF sa = NULL THEN Ret(M, UNDEF)
  ELSE IF M.sas[sa].refcount + delta <= 0
    THEN Ret([M EXCEPT !.sas[sa] = FreeStruct(@)], 0)
  ELSE Ret([M EXCEPT !.sas[sa].refcount = @ + delta], 0)

\* sarrayChangeRefcount()
sarrayChangeRefcount(M, sa, delta) ==
  IF sa = NULL THEN Ret(M, UNDEF)
  ELSE Ret([M EXCEPT !.sas[sa].refcount = @ + delta], 0)

\* reallocNew(): a zeroed block of newsize slots that holds the first oldsize
\* slots of the old block, which is freed
reallocNew(indata, oldsize, newsize) ==
  [k \in 1..newsize |-> IF k <= Min(oldsize, newsize) THEN indata[k] ELSE NULL]

\* An extension by one slot instead of a doubling.
sarrayExtendArrayByOne(M, sa) ==
  LET old == M.sas[sa]
  IN Ret([M EXCEPT !.sas[sa].array = reallocNew(old.array, old.nalloc, old.nalloc + 1),
                   !.sas[sa].nalloc = old.nalloc + 1], 0)

\* sarrayExtendArray()
sarrayExtendArray(M, sa) ==
  LET old == M.sas[sa]
  IN Ret([M EXCEPT !.sas[sa].array = reallocNew(old.array, old.nalloc, 2 * old.nalloc),
                   !.sas[sa].nalloc = 2 * old.nalloc], 0)

\* An add that stores the caller's pointer whatever the copyflag.
sarrayAddStringStoresPointer(M, sa, string, copyflag) ==
  IF sa = NULL THEN Ret(M, 1)
  ELSE IF string.ptr = NULL THEN Ret(M, 1)
  ELSE IF copyflag # L_INSERT /\ copyflag # L_COPY THEN Ret(M, 1)
  ELSE LET n == sarrayGetCount(M, sa)
           M1 == IF n >= M.sas[sa].nalloc THEN sarrayExtendArray(M, sa).M ELSE M
       IN Ret([M1 EXCEPT !.sas[sa].array[n + 1] = string.ptr,
                         !.sas[sa].n = @ + 1], 0)

\* sarrayAddString()
sarrayAddString(M, sa, string, copyflag) ==
  IF sa = NULL THEN Ret(M, 1)
  ELSE IF string.ptr = NULL THEN Ret(M, 1)
  ELSE IF copyflag # L_INSERT /\ copyflag # L_COPY THEN Ret(M, 1)
  ELSE LET n == sarrayGetCount(M, sa)
           M1 == IF n >= M.sas[sa].nalloc THEN sarrayExtendArray(M, sa).M ELSE M
           new == IF copyflag = L_INSERT THEN Ret(M1, string.ptr)
                  ELSE stringNew(M1, string.val)
       IN Ret([new.M EXCEPT !.sas[sa].array[n + 1] = new.ret,
                            !.sas[sa].n = @ + 1], 0)

\* sarrayGetString()
sarrayGetString(M, sa, index, copyflag) ==
  IF sa = NULL THEN Ret(M, NULL)
  ELSE IF index < 0 \/ index >= M.sas[sa].n THEN Ret(M, NULL)
  ELSE IF copyflag # L_NOCOPY /\ copyflag # L_COPY THEN Ret(M, NULL)
  ELSE IF copyflag = L_NOCOPY THEN Ret(M, M.sas[sa].array[index + 1])
  ELSE stringNew(M, M.hp[M.sas[sa].array[index + 1]].val)

\* sarrayDestroy(psa), sa = *psa: returns the memory and the value left in *psa
RECURSIVE DestroyFreeLoop(_, _, _, _)
DestroyFreeLoop(H, array, i, n) ==
  IF i >= n THEN H ELSE DestroyFreeLoop(Free(H, array[i + 1]), array, i + 1, n)

\* A destroy that frees only once the count has gone below zero.
sarrayDestroyFreesBelowZero(M, sa) == sarrayGetRefcount(M, sa) < 0

sarrayDestroyFrees(M, sa) == sarrayGetRefcount(M, sa) <= 0

sarrayDestroy(M, sa) ==
  IF sa = NULL THEN Ret(M, sa)
  ELSE LET M1 == sarrayChangeRefcount(M, sa, -1).M
       IN Ret(IF sarrayDestroyFrees(M1, sa)
                THEN [M1 EXCEPT !.hp = DestroyFreeLoop(@, M1.sas[sa].array, 0, M1.sas[sa].n),
                                !.sas[sa] = FreeStruct(@)]
                ELSE M1,
              NULL)

\* sarrayCopy()
RECURSIVE CopyLoop(_, _, _, _)
CopyLoop(M, csa, sa, i) ==
  IF i >= M.sas[sa].n THEN M
  ELSE CopyLoop(sarrayAddString(M, csa, StrAt(M, M.sas[sa].array[i + 1]), L_COPY).M,
                csa, sa, i + 1)

sarrayCopy(M, sa) ==
  IF sa = NULL THEN Ret(M, NULL)
  ELSE LET c == sarrayCreate(M, M.sas[sa].nalloc)
       IN Ret(CopyLoop(c.M, c.ret, sa, 0), c.ret)

\* sarrayClone()
sarrayClone(M, sa) ==
  IF sa = NULL THEN Ret(M, NULL)
  ELSE Ret(sarrayChangeRefcount(M, sa, 1).M, sa)

\* A removal that fills the hole but leaves the count as it was.
sarrayRemoveStringKeepsCount(M, sa, index) ==
  IF sa = NULL THEN Ret(M, NULL)
  ELSE LET array == M.sas[sa].array
           n == M.sas[sa].n
       IN IF index < 0 \/ index >= n THEN Ret(M, NULL)
          ELSE Ret([M EXCEPT !.sas[sa].array =
                               [k \in 1..Len(array) |->
                                  IF k - 1 >= index /\ k - 1 < n - 1
                                    THEN array[k + 1] ELSE array[k]]],
                   array[index + 1])

\* A removal that puts the last string into the hole instead of shifting.
sarrayRemoveStringFillsWithLast(M, sa, index) ==
  IF sa = NULL THEN Ret(M, NULL)
  ELSE LET array == M.sas[sa].array
           n == M.sas[sa].n
       IN IF index < 0 \/ index >= n THEN Ret(M, NULL)
          ELSE Ret([M EXCEPT !.sas[sa].array[index + 1] = array[n],
                             !.sas[sa].n = n - 1],
                   array[index + 1])

\* sarrayRemoveString()
sarrayRemoveString(M, sa, index) ==
  IF sa = NULL THEN Ret(M, NULL)
  ELSE LET array == M.sas[sa].array
           n == M.sas[sa].n
       IN IF index < 0 \/ index >= n THEN Ret(M, NULL)
          ELSE Ret([M EXCEPT !.sas[sa].array =
                               [k \in 1..Len(array) |->
                                  IF k - 1 >= index /\ k - 1 < n - 1
                                    THEN array[k + 1] ELSE array[k]],
                             !.sas[sa].n = n - 1],
                   array[index + 1])

\* What an int that nothing was assigned to may hold
UninitInts == { 0 - 3, 0, 2 }

\* sarrayClear(): what the call may return.  With sa NULL it returns the 0
\* given to ERROR_INT; otherwise it ends without a return statement and the
\* caller reads a value that nothing was assigned to.
sarrayClearReturns(sa) == IF sa = NULL THEN {0} ELSE UninitInts

\* sarrayClear(): the memory it leaves
sarrayClear(M, sa) ==
  IF sa = NULL THEN M
  ELSE LET array == M.sas[sa].array
           n == M.sas[sa].n
       IN [M EXCEPT !.hp = DestroyFreeLoop(@, array, 0, n),
                    !.sas[sa].array = [k \in 1..Len(array) |->
                                         IF k <= n THEN NULL ELSE array[k]],
                    !.sas[sa].n = 0]

\* sarrayConcatenate()
\* A loop that inserts sa2's own strings into sa1 instead of copies of them.
RECURSIVE ConcatLoopInserts(_, _, _, _, _)
ConcatLoopInserts(M, sa1, sa2, i, n) ==
  IF i >= n THEN M
  ELSE LET string == sarrayGetString(M, sa2, i, L_NOCOPY).ret
       IN ConcatLoopInserts(sarrayAddString(M, sa1, StrAt(M, string), L_INSERT).M,
                            sa1, sa2, i + 1, n)

RECURSIVE ConcatLoop(_, _, _, _, _)
ConcatLoop(M, sa1, sa2, i, n) ==
  IF i >= n THEN M
  ELSE LET string == sarrayGetString(M, sa2, i, L_NOCOPY).ret
       IN ConcatLoop(sarrayAddString(M, sa1, StrAt(M, string), L_COPY).M,
                     sa1, sa2, i + 1, n)

sarrayConcatenate(M, sa1, sa2) ==
  IF sa1 = NULL THEN Ret(M, 1)
  ELSE IF sa2 = NULL THEN Ret(M, 1)
  ELSE Ret(ConcatLoop(M, sa1, sa2, 0, sarrayGetCount(M, sa2)), 0)

\* A sort that sorts whatever saout it is given, be it sain or not.
sarraySortIntoAny(M, saout, sain, sortorder) ==
  IF sain = NULL THEN Ret(M, NULL)
  ELSE LET c == IF saout = NULL THEN sarrayCopy(M, sain) ELSE Ret(M, saout)
           n == sarrayGetCount(c.M, c.ret)
           mem == [p \in 1..Len(c.M.hp) |-> c.M.hp[p].val]
       IN Ret([c.M EXCEPT !.sas[c.ret].array = ShellSort(@, n, sortorder, mem)], c.ret)

\* sarraySort()
sarraySort(M, saout, sain, sortorder) ==
  IF sain = NULL THEN Ret(M, NULL)
  ELSE IF saout # NULL /\ sain # saout THEN Ret(M, NULL)
  ELSE LET c == IF saout = NULL THEN sarrayCopy(M, sain) ELSE Ret(M, saout)
           n == sarrayGetCount(c.M, c.ret)
           mem == [p \in 1..Len(c.M.hp) |-> c.M.hp[p].val]
       IN Ret([c.M EXCEPT !.sas[c.ret].array = ShellSort(@, n, sortorder, mem)], c.ret)

\* strtokSafe(): the successive tokens, each a fresh heap string
RECURSIVE TokensFrom(_, _, _, _)
TokensFrom(str, separators, i, cur) ==
  IF i > Len(str) THEN (IF cur = <<>> THEN <<>> ELSE <<cur>>)
  ELSE IF str[i] \in separators
    THEN (IF cur = <<>> THEN <<>> ELSE <<cur>>) \o TokensFrom(str, separators, i + 1, <<>>)
    ELSE TokensFrom(str, separators, i + 1, Append(cur, str[i]))

strtokSafe(str, separators) == TokensFrom(str, separators, 1, <<>>)

\* sarraySplitString()
RECURSIVE SplitLoop(_, _, _, _)
SplitLoop(M, sa, toks, k) ==
  IF k > Len(toks) THEN M
  ELSE LET substr == stringNew(M, toks[k])
       IN SplitLoop(sarrayAddString(substr.M, sa, StrAt(substr.M, substr.ret), L_INSERT).M,
                    sa, toks, k + 1)

sarraySplitString(M, sa, str, separators) ==
  IF sa = NULL THEN Ret(M, 1)
  ELSE Ret(SplitLoop(M, sa, strtokSafe(str, separators), 1), 0)

\* sarrayCreateWordsFromString()
RECURSIVE CountWords(_, _, _, _)
CountWords(string, i, inword, nsub) ==
  IF i >= Len(string) THEN nsub
  ELSE LET c == string[i + 1]
           issep == c = SP \/ c = TAB \/ c = NL
       IN IF ~inword /\ ~issep THEN CountWords(string, i + 1, TRUE, nsub + 1)
          ELSE IF inword /\ issep THEN CountWords(string, i + 1, FALSE, nsub)
          ELSE CountWords(string, i + 1, inword, nsub)

\* A constructor that splits on space and newline only.
sarrayCreateWordsSplitsNoTab(M, string) ==
  LET nsub == CountWords(string, 0, FALSE, 0)
      c == sarrayCreate(M, nsub)
  IN Ret(sarraySplitString(c.M, c.ret, string, {SP, NL}).M, c.ret)

sarrayCreateWordsFromString(M, string) ==
  LET nsub == CountWords(string, 0, FALSE, 0)
      c == sarrayCreate(M, nsub)
  IN Ret(sarraySplitString(c.M, c.ret, string, {SP, NL, TAB}).M, c.ret)

\* sarrayCreateLinesFromString()
CountNewlines(string) == Cardinality({ i \in 1..Len(string) : string[i] = NL })

\* A loop that leaves out what follows the last newline.
RECURSIVE LinesLoopNoTail(_, _, _, _, _)
LinesLoopNoTail(M, sa, cstring, i, startptr) ==
  IF i >= Len(cstring) THEN M
  ELSE IF cstring[i + 1] = NL
    THEN LET substring == stringNew(M, SubSeq(cstring, startptr + 1, i))
         IN LinesLoopNoTail(sarrayAddString(substring.M, sa,
                                            StrAt(substring.M, substring.ret), L_INSERT).M,
                            sa, cstring, i + 1, i + 1)
    ELSE LinesLoopNoTail(M, sa, cstring, i + 1, startptr)

RECURSIVE LinesLoop(_, _, _, _, _)
LinesLoop(M, sa, cstring, i, startptr) ==
  IF i >= Len(cstring)
    THEN IF startptr < Len(cstring)
           THEN LET substring == stringNew(M, SubSeq(cstring, startptr + 1, Len(cstring)))
                IN sarrayAddString(substring.M, sa,
                                   StrAt(substring.M, substring.ret), L_INSERT).M
           ELSE M
  ELSE IF cstring[i + 1] = NL
    THEN LET substring == stringNew(M, SubSeq(cstring, startptr + 1, i))
         IN LinesLoop(sarrayAddString(substring.M, sa,
                                      StrAt(substring.M, substring.ret), L_INSERT).M,
                      sa, cstring, i + 1, i + 1)
    ELSE LinesLoop(M, sa, cstring, i + 1, startptr)

sarrayCreateLinesFromString(M, string, blankflag) ==
  LET nsub == CountNewlines(string)
      c == sarrayCreate(M, nsub)
  IN IF blankflag # 0
       THEN Ret(LinesLoop(c.M, c.ret, string, 0, 0), c.ret)
       ELSE Ret(sarraySplitString(c.M, c.ret, string, {NL}).M, c.ret)

\* ------------------------------------------------------------------------
\* Serialization.  A stream is the sequence of its bytes and a position in it.
\* ------------------------------------------------------------------------
\* "\nSarray Version %d\n"
FmtVersion == <<10, 83, 97, 114, 114, 97, 121, 32, 86, 101, 114, 115, 105, 111, 110, 32, 37, 100, 10>>
\* "Number of strings = %d\n"
FmtCount == <<78, 117, 109, 98, 101, 114, 32, 111, 102, 32, 115, 116, 114, 105, 110, 103, 115, 32, 61, 32, 37, 100, 10>>
\* "  %d[%d]:  %s\n"
FmtRecordOut == <<32, 32, 37, 100, 91, 37, 100, 93, 58, 32, 32, 37, 115, 10>>
\* "%d[%d]:"
FmtRecordIn == <<37, 100, 91, 37, 100, 93, 58>>
\* "\n"
FmtNewline == <<10>>

\* isspace() in the C locale
IsSpace(c) == c \in {32, 9, 10, 11, 12, 13}
IsDigit(c) == c >= 48 /\ c <= 57

\* printf's %d of an int
RECURSIVE Digits(_)
Digits(v) == IF v < 10 THEN <<48 + v>> ELSE Digits(v \div 10) \o <<48 + (v % 10)>>

FormatInt(v) == IF v < 0 THEN <<45>> \o Digits(0 - v) ELSE Digits(v)

\* fprintf(fp, fmt, args...): the bytes written; an argument is an int for
\* %d and the bytes of a C string for %s
RECURSIVE fprintf(_, _, _)
fprintf(fmt, k, args) ==
  IF k > Len(fmt) THEN <<>>
  ELSE IF fmt[k] = 37 /\ k < Len(fmt) /\ fmt[k + 1] = 100
    THEN FormatInt(Head(args)) \o fprintf(fmt, k + 2, Tail(args))
  ELSE IF fmt[k] = 37 /\ k < Len(fmt) /\ fmt[k + 1] = 115
    THEN Head(args) \o fprintf(fmt, k + 2, Tail(args))
  ELSE <<fmt[k]>> \o fprintf(fmt, k + 1, args)

\* fscanf's white-space directive, and the white space %d skips: the position
\* of the first byte that is not white space
RECURSIVE SkipSpace(_, _)
SkipSpace(s, pos) ==
  IF pos <= Len(s) /\ IsSpace(s[pos]) THEN SkipSpace(s, pos + 1) ELSE pos

RECURSIVE ScanDigits(_, _, _)
ScanDigits(s, pos, v) ==
  IF pos <= Len(s) /\ IsDigit(s[pos])
    THEN ScanDigits(s, pos + 1, 10 * v + (s[pos] - 48))
    ELSE [pos |-> pos, val |-> v]

\* fscanf's %d: white space is skipped, then the longest prefix of a decimal
\* integer is consumed; the item matches if it has a digit
ScanInt(s, pos) ==
  LET p0 == SkipSpace(s, pos)
      signed == p0 <= Len(s) /\ s[p0] \in {43, 45}
      p1 == IF signed THEN p0 + 1 ELSE p0
      d == ScanDigits(s, p1, 0)
  IN [ok |-> d.pos > p1,
      eof |-> p0 > Len(s),
      pos |-> d.pos,
      val |-> IF signed /\ s[p0] = 45 THEN 0 - d.val ELSE d.val]

\* fscanf(fp, fmt, ...) from position pos: vals are the values assigned in
\* order, ret is what fscanf returns, the number of them or EOF (-1) when the
\* input ends before the first conversion
RECURSIVE fscanf(_, _, _, _, _)
fscanf(s, pos, fmt, k, vals) ==
  IF k > Len(fmt) THEN [pos |-> pos, vals |-> vals, ret |-> Len(vals)]
  ELSE IF IsSpace(fmt[k]) THEN fscanf(s, SkipSpace(s, pos), fmt, k + 1, vals)
  ELSE IF fmt[k] = 37 /\ k < Len(fmt) /\ fmt[k + 1] = 100
    THEN LET d == ScanInt(s, pos)
         IN IF d.ok THEN fscanf(s, d.pos, fmt, k + 2, Append(vals, d.val))
            ELSE [pos |-> d.pos, vals |-> vals,
                  ret |-> IF d.eof /\ vals = <<>> THEN 0 - 1 ELSE Len(vals)]
  ELSE IF pos <= Len(s) /\ s[pos] = fmt[k] THEN fscanf(s, pos + 1, fmt, k + 1, vals)
  ELSE [pos |-> pos, vals |-> vals,
        ret |-> IF pos > Len(s) /\ vals = <<>> THEN 0 - 1 ELSE Len(vals)]

\* The bytes of the C string at buf + off, for a buffer that holds a NUL at
\* or after off
CString(buf, off) ==
  LET nuls == { k \in (off + 1)..Len(buf) : buf[k] = 0 }
      end == CHOOSE k \in nuls : \A j \in nuls : k <= j
  IN [k \in 1..(end - off - 1) |-> buf[off + k]]

HasNul(buf, off) == \E k \in (off + 1)..Len(buf) : buf[k] = 0

\* sarrayWriteStream(): the bytes written to the stream, or none on error
RECURSIVE WriteLoop(_, _, _, _)
WriteLoop(M, sa, i, n) ==
  IF i >= n THEN <<>>
  ELSE LET string == M.hp[M.sas[sa].array[i + 1]].val
       IN fprintf(FmtRecordOut, 1, <<i, Len(string), string>>) \o WriteLoop(M, sa, i + 1, n)

sarrayWriteStream(M, sa) ==
  IF sa = NULL THEN [ret |-> 1, bytes |-> <<>>]
  ELSE LET n == sarrayGetCount(M, sa)
       IN [ret |-> 0,
           bytes |-> fprintf(FmtVersion, 1, <<SARRAY_VERSION_NUMBER>>)
                       \o fprintf(FmtCount, 1, <<n>>)
                       \o WriteLoop(M, sa, 0, n)
                       \o fprintf(FmtNewline, 1, <<>>)]

\* sarrayReadStream().  uninit = [n, size] is what the variables n and size
\* hold before anything is assigned to them.  The loop's state st is
\* [M, pos, size, bufsize, stringbuf, ub]; ub says that the call has written
\* or read outside stringbuf.
Zeroed(bufsize) == [k \in 1..bufsize |-> 0]

\* One pass of a loop that copies from stringbuf, not from stringbuf + 2.
ReadRecordKeepsSpaces(st, sa, s) ==
  LET r == fscanf(s, st.pos, FmtRecordIn, 1, <<>>)
      size == IF r.ret = 2 THEN r.vals[2] ELSE st.size
      grow == size > st.bufsize - 5
      bufsize == IF grow THEN (3 * size) \div 2 ELSE st.bufsize
      buf0 == IF grow THEN Zeroed(bufsize) ELSE st.stringbuf
      left == Len(s) - r.pos + 1
      nread == IF size + 3 < 0 THEN left ELSE Min(left, size + 3)
      buf1 == [k \in 1..bufsize |-> IF k <= nread THEN s[r.pos + k - 1] ELSE buf0[k]]
  IN IF size + 2 < 0 \/ nread > bufsize
       THEN [st EXCEPT !.ub = TRUE]
       ELSE LET buf2 == [buf1 EXCEPT ![size + 3] = 0]
            IN [M |-> sarrayAddString(st.M, sa, StrArg(STATIC, CString(buf2, 0)),
                                      L_COPY).M,
                pos |-> r.pos + nread, size |-> size, bufsize |-> bufsize,
                stringbuf |-> buf2, ub |-> FALSE]

\* One pass of the loop of sarrayReadStream()
ReadRecord(st, sa, s) ==
  LET r == fscanf(s, st.pos, FmtRecordIn, 1, <<>>)
      size == IF r.ret = 2 THEN r.vals[2] ELSE st.size
      grow == size > st.bufsize - 5
      bufsize == IF grow THEN (3 * size) \div 2 ELSE st.bufsize
      buf0 == IF grow THEN Zeroed(bufsize) ELSE st.stringbuf
      left == Len(s) - r.pos + 1
      nread == IF size + 3 < 0 THEN left ELSE Min(left, size + 3)
      buf1 == [k \in 1..bufsize |-> IF k <= nread THEN s[r.pos + k - 1] ELSE buf0[k]]
  IN IF size + 2 < 0 \/ nread > bufsize
       THEN [st EXCEPT !.ub = TRUE]
       ELSE LET buf2 == [buf1 EXCEPT ![size + 3] = 0]
            IN IF ~HasNul(buf2, 2) THEN [st EXCEPT !.ub = TRUE]
               ELSE [M |-> sarrayAddString(st.M, sa, StrArg(STATIC, CString(buf2, 2)),
                                           L_COPY).M,
                     pos |-> r.pos + nread, size |-> size, bufsize |-> bufsize,
                     stringbuf |-> buf2, ub |-> FALSE]

RECURSIVE ReadLoop(_, _, _, _, _)
ReadLoop(st, sa, s, i, n) ==
  IF i >= n \/ st.ub THEN st ELSE ReadLoop(ReadRecord(st, sa, s), sa, s, i + 1, n)

\* A test of the header that takes any version number.
NotAnSarrayFileOnly(v) == v.ret # 1

\* The two tests that end sarrayReadStream() after the header was scanned
HeaderRejected(v) ==
  IF v.ret # 1 THEN TRUE
  ELSE v.vals[1] # SARRAY_VERSION_NUMBER

sarrayReadStream(M, s, uninit) ==
  LET v == fscanf(s, 1, FmtVersion, 1, <<>>)
  IN IF HeaderRejected(v) THEN [M |-> M, ret |-> NULL, ub |-> FALSE]
     ELSE LET c == fscanf(s, v.pos, FmtCount, 1, <<>>)
              n == IF c.ret = 1 THEN c.vals[1] ELSE uninit.n
              sa == sarrayCreate(M, n)
              bufsize == L_BUF_SIZE + 1
              st == ReadLoop([M |-> sa.M, pos |-> c.pos, size |-> uninit.size,
                              bufsize |-> bufsize, stringbuf |-> Zeroed(bufsize),
                              ub |-> FALSE],
                             sa.ret, s, 0, n)
          IN [M |-> st.M, ret |-> sa.ret, ub |-> st.ub]

\* ------------------------------------------------------------------------
\* Conversion to string
\* ------------------------------------------------------------------------
\* memcpy(dest + index, src, len)
memcpy(dest, index, src, len) ==
  [k \in 1..Len(dest) |-> IF k > index /\ k <= index + len THEN src[k - index] ELSE dest[k]]

\* sarrayToStringRange(): the loop that sizes dest
RECURSIVE ToStringSize(_, _, _, _)
ToStringSize(M, sa, i, lastIndex) ==
  IF i > lastIndex THEN 0
  ELSE Len(M.hp[sarrayGetString(M, sa, i, L_NOCOPY).ret].val) + 2
         + ToStringSize(M, sa, i + 1, lastIndex)

\* A loop that puts the separator between substrings and not after the last.
RECURSIVE ToStringLoopSeparatesOnly(_, _, _, _, _, _, _)
ToStringLoopSeparatesOnly(M, sa, dest, index, i, lastIndex, addnlflag) ==
  IF i > lastIndex THEN dest
  ELSE LET src == M.hp[M.sas[sa].array[i + 1]].val
           len == Len(src)
           copied == memcpy(dest, index, src, len)
       IN IF addnlflag \in {1, 2} /\ i < lastIndex
            THEN ToStringLoopSeparatesOnly(M, sa,
                   [copied EXCEPT ![index + len + 1] = IF addnlflag = 1 THEN NL ELSE SP],
                   index + len + 1, i + 1, lastIndex, addnlflag)
            ELSE ToStringLoopSeparatesOnly(M, sa, copied, index + len, i + 1,
                                           lastIndex, addnlflag)

\* sarrayToStringRange(): the loop that fills dest
RECURSIVE ToStringLoop(_, _, _, _, _, _, _)
ToStringLoop(M, sa, dest, index, i, lastIndex, addnlflag) ==
  IF i > lastIndex THEN dest
  ELSE LET src == M.hp[M.sas[sa].array[i + 1]].val
           len == Len(src)
           copied == memcpy(dest, index, src, len)
       IN IF addnlflag = 1
            THEN ToStringLoop(M, sa, [copied EXCEPT ![index + len + 1] = NL],
                              index + len + 1, i + 1, lastIndex, addnlflag)
          ELSE IF addnlflag = 2
            THEN ToStringLoop(M, sa, [copied EXCEPT ![index + len + 1] = SP],
                              index + len + 1, i + 1, lastIndex, addnlflag)
          ELSE ToStringLoop(M, sa, copied, index + len, i + 1, lastIndex, addnlflag)

\* sarrayToStringRange(): dest is a zeroed block of size + 1 bytes, returned
\* as the C string it holds
sarrayToStringRange(M, sa, first, nstrings, addnlflag) ==
  IF sa = NULL THEN Ret(M, NULL)
  ELSE LET n == sarrayGetCount(M, sa)
       IN IF first < 0 \/ first >= n THEN Ret(M, NULL)
          ELSE LET count == IF nstrings = 0 \/ nstrings > n - first
                              THEN n - first ELSE nstrings
                   lastIndex == first + count - 1
                   size == ToStringSize(M, sa, first, lastIndex)
                   dest == ToStringLoop(M, sa, Zeroed(size + 1), 0, first, lastIndex,
                                        addnlflag)
               IN Ret([M EXCEPT !.hp = Append(@, [val |-> CString(dest, 0), frees |-> 0])],
                      Len(M.hp) + 1)

\* sarrayToString()
sarrayToString(M, sa, addnlflag) ==
  IF sa = NULL THEN Ret(M, NULL)
  ELSE sarrayToStringRange(M, sa, 0, 0, addnlflag)

\* ------------------------------------------------------------------------
\* Convert word sarray to line sarray
\* ------------------------------------------------------------------------
\* strl = sarrayToString(sal, 2); sarrayAddString(saout, strl, L_INSERT)
FlushLine(M, saout, sal) ==
  LET strl == sarrayToString(M, sal, 2)
  IN sarrayAddString(strl.M, saout, StrAt(strl.M, strl.ret), L_INSERT).M

\* A loop that ends a line as soon as the next word would fill it.
RECURSIVE WordsToLinesLoopEndsFullLine(_, _, _, _, _, _)
WordsToLinesLoopEndsFullLine(st, sa, saout, linesize, i, n) ==
  IF i >= n THEN st
  ELSE LET c == IF st.sal = NULL THEN sarrayCreate(st.M, 0) ELSE Ret(st.M, st.sal)
           wd == StrAt(c.M, sarrayGetString(c.M, sa, i, L_NOCOPY).ret)
           len == Len(wd.val)
       IN IF len = 0
            THEN LET M1 == IF st.totlen > 0 THEN FlushLine(c.M, saout, c.ret) ELSE c.M
                     M2 == sarrayAddString(M1, saout, StrArg(STATIC, <<>>), L_COPY).M
                     d == sarrayDestroy(M2, c.ret)
                 IN WordsToLinesLoopEndsFullLine([M |-> d.M, sal |-> d.ret, totlen |-> 0],
                                                 sa, saout, linesize, i + 1, n)
          ELSE IF st.totlen = 0 /\ len + 1 > linesize
            THEN WordsToLinesLoopEndsFullLine(
                   [M |-> sarrayAddString(c.M, saout, wd, L_COPY).M, sal |-> c.ret,
                    totlen |-> st.totlen],
                   sa, saout, linesize, i + 1, n)
          ELSE IF st.totlen + len + 1 >= linesize
            THEN LET d == sarrayDestroy(FlushLine(c.M, saout, c.ret), c.ret)
                     c2 == sarrayCreate(d.M, 0)
                 IN WordsToLinesLoopEndsFullLine(
                      [M |-> sarrayAddString(c2.M, c2.ret, wd, L_COPY).M, sal |-> c2.ret,
                       totlen |-> len + 1],
                      sa, saout, linesize, i + 1, n)
          ELSE WordsToLinesLoopEndsFullLine(
                 [M |-> sarrayAddString(c.M, c.ret, wd, L_COPY).M, sal |-> c.ret,
                  totlen |-> st.totlen + len + 1],
                 sa, saout, linesize, i + 1, n)

\* sarrayConvertWordsToLines(): the loop over the words; st holds the memory,
\* sal and totlen
RECURSIVE WordsToLinesLoop(_, _, _, _, _, _)
WordsToLinesLoop(st, sa, saout, linesize, i, n) ==
  IF i >= n THEN st
  ELSE LET c == IF st.sal = NULL THEN sarrayCreate(st.M, 0) ELSE Ret(st.M, st.sal)
           wd == StrAt(c.M, sarrayGetString(c.M, sa, i, L_NOCOPY).ret)
           len == Len(wd.val)
       IN IF len = 0
            THEN LET M1 == IF st.totlen > 0 THEN FlushLine(c.M, saout, c.ret) ELSE c.M
                     M2 == sarrayAddString(M1, saout, StrArg(STATIC, <<>>), L_COPY).M
                     d == sarrayDestroy(M2, c.ret)
                 IN WordsToLinesLoop([M |-> d.M, sal |-> d.ret, totlen |-> 0],
                                     sa, saout, linesize, i + 1, n)
          ELSE IF st.totlen = 0 /\ len + 1 > linesize
            THEN WordsToLinesLoop(
                   [M |-> sarrayAddString(c.M, saout, wd, L_COPY).M, sal |-> c.ret,
                    totlen |-> st.totlen],
                   sa, saout, linesize, i + 1, n)
          ELSE IF st.totlen + len + 1 > linesize
            THEN LET d == sarrayDestroy(FlushLine(c.M, saout, c.ret), c.ret)
                     c2 == sarrayCreate(d.M, 0)
                 IN WordsToLinesLoop(
                      [M |-> sarrayAddString(c2.M, c2.ret, wd, L_COPY).M, sal |-> c2.ret,
                       totlen |-> len + 1],
                      sa, saout, linesize, i + 1, n)
          ELSE WordsToLinesLoop(
                 [M |-> sarrayAddString(c.M, c.ret, wd, L_COPY).M, sal |-> c.ret,
                  totlen |-> st.totlen + len + 1],
                 sa, saout, linesize, i + 1, n)

\* A conversion that returns without the line left in sal.
sarrayConvertWordsToLinesDropsLast(M, sa, linesize) ==
  IF sa = NULL THEN Ret(M, NULL)
  ELSE LET saout == sarrayCreate(M, 0)
           n == sarrayGetCount(saout.M, sa)
           st == WordsToLinesLoop([M |-> saout.M, sal |-> NULL, totlen |-> 0],
                                  sa, saout.ret, linesize, 0, n)
       IN Ret(st.M, saout.ret)

\* sarrayConvertWordsToLines()
sarrayConvertWordsToLines(M, sa, linesize) ==
  IF sa = NULL THEN Ret(M, NULL)
  ELSE LET saout == sarrayCreate(M, 0)
           n == sarrayGetCount(saout.M, sa)
           st == WordsToLinesLoop([M |-> saout.M, sal |-> NULL, totlen |-> 0],
                                  sa, saout.ret, linesize, 0, n)
       IN IF st.totlen > 0
            THEN Ret(sarrayDestroy(FlushLine(st.M, saout.ret, st.sal), st.sal).M, saout.ret)
            ELSE Ret(st.M, saout.ret)

NoIO == [phase |-> "none", kind |-> "none", strings |-> <<>>, file |-> <<>>, file2 |-> <<>>]

NoCall == [op |-> "none", ret |-> 0]

InitHeap ==
  /\ heapLimit \in [heap : {0, MaxHeap, MaxHeapOwn, MaxHeapGrow}, sa : {0, MaxSa, MaxSaGrow}]
  /\ hp = <<>>
  /\ sas = <<>>
  /\ handle = [h \in 1..MaxHandles |-> NULL]
  /\ owned = {}
  /\ netDelta = <<>>
  /\ last = NoCall

\* ------------------------------------------------------------------------
\* The calls a program makes.  Each action is one call of the library
\* sarrayAddString() when an allocation may fail
\* ------------------------------------------------------------------------
\* A struct whose array pointer is NULL holds no block: array = NoArray
\* while nalloc is as it was.
NoArray == <<>>

\* sarrayExtendArray() when reallocNew returns NULL: the NULL has been
\* assigned to sa->array, nalloc is not doubled, 1 is returned
sarrayExtendArrayFails(M, sa) == Ret([M EXCEPT !.sas[sa].array = NoArray], 1)

\* sarrayAddString() where alloc.array says whether reallocNew and
\* alloc.string whether stringNew gets its block.  ub holds when the call
\* stored through the NULL array pointer: what that store did is not
\* defined; the struct is shown as the code goes on to leave it.
sarrayAddStringAlloc(M, sa, string, copyflag, alloc) ==
  IF sa = NULL THEN [M |-> M, ret |-> 1, ub |-> FALSE]
  ELSE IF string.ptr = NULL THEN [M |-> M, ret |-> 1, ub |-> FALSE]
  ELSE IF copyflag # L_INSERT /\ copyflag # L_COPY THEN [M |-> M, ret |-> 1, ub |-> FALSE]
  ELSE LET n == sarrayGetCount(M, sa)
           M1 == IF n >= M.sas[sa].nalloc
                   THEN (IF alloc.array THEN sarrayExtendArray(M, sa).M
                         ELSE sarrayExtendArrayFails(M, sa).M)
                   ELSE M
           new == IF copyflag = L_INSERT THEN Ret(M1, string.ptr)
                  ELSE IF alloc.string THEN stringNew(M1, string.val)
                  ELSE Ret(M1, NULL)
       IN IF M1.sas[sa].array = NoArray
            THEN [M |-> [new.M EXCEPT !.sas[sa].n = @ + 1], ret |-> 0, ub |-> TRUE]
            ELSE [M |-> [new.M EXCEPT !.sas[sa].array[n + 1] = new.ret,
                                      !.sas[sa].n = @ + 1],
                  ret |-> 0, ub |-> FALSE]

\* ------------------------------------------------------------------------
\* The calls of a program that uses the library, made one at a time
\* through the caller's SARRAY* variables handle[1..MaxHandles]; a new
\* array's pointer goes to the first variable that is NULL.
\* ------------------------------------------------------------------------
Handles == 1..MaxHandles
CurMem == [hp |-> hp, sas |-> sas]
Call(op, ret) == [op |-> op, ret |-> ret]

HasFreeHandle == \E g \in Handles : handle[g] = NULL
FreeHandle ==
  CHOOSE g \in Handles : handle[g] = NULL /\ \A g2 \in 1..(g - 1) : handle[g2] # NULL

\* The struct behind h has not been freed (or h is NULL).
Valid(h) == IF handle[h] = NULL THEN TRUE ELSE sas[handle[h]].frees = 0
Defined == last.op # "undefined"
Within(M) == Len(M.hp) <= heapLimit.heap /\ Len(M.sas) <= heapLimit.sa

Commit(M) ==
  /\ hp' = M.hp
  /\ sas' = M.sas
  /\ netDelta' = [k \in 1..Len(M.sas) |-> IF k <= Len(netDelta) THEN netDelta[k] ELSE 0]

\* What the caller may pass as a string: its own literals and buffers.
CallerValues == { <<97>>, <<98>> }
WordTexts == { <<>>, <<32, 97, 32, 32, 98>> }
LineTexts == { <<97, 10, 10, 98>>, <<97, 10>> }
CreateSizes == { -1, 0, 1, 2 }
RemoveIndexes == -1..2

\* sa = sarrayCreate(n), and the two constructors from text
NewArray(op, call) ==
  \E r \in {call} :
  /\ Within(r.M)
  /\ HasFreeHandle
  /\ Commit(r.M)
  /\ handle' = [handle EXCEPT ![FreeHandle] = r.ret]
  /\ last' = Call(op, r.ret)
  /\ UNCHANGED <<owned, charIsSigned, srt, heapLimit, io>>

CreateCall(n) == NewArray("Create", sarrayCreate(CurMem, n))

Create == Defined /\ \E n \in CreateSizes : CreateCall(n)

CreateWordsCall(text) ==
  NewArray("CreateWords", sarrayCreateWordsFromString(CurMem, text))

CreateWordsFromString == Defined /\ \E text \in WordTexts : CreateWordsCall(text)

CreateLinesCall(text, blankflag) ==
  NewArray("CreateLines", sarrayCreateLinesFromString(CurMem, text, blankflag))

CreateLinesFromString ==
  Defined /\ \E text \in LineTexts, blankflag \in {0, 1} : CreateLinesCall(text, blankflag)

\* sarrayDestroy(&handle[h])
DestroyCall(h) ==
  /\ Valid(h)
  /\ \E r \in {sarrayDestroy(CurMem, handle[h])} :
        /\ hp' = r.M.hp
        /\ sas' = r.M.sas
        /\ handle' = [handle EXCEPT ![h] = r.ret]
        /\ last' = Call("Destroy", 0)
  /\ UNCHANGED <<owned, netDelta, charIsSigned, srt, heapLimit, io>>

Destroy == Defined /\ \E h \in Handles : DestroyCall(h)

\* handle[g] = sarrayCopy(handle[h])
CopyCall(h) ==
  /\ Valid(h)
  /\ \E r \in {sarrayCopy(CurMem, handle[h])} :
        IF r.ret = NULL
          THEN /\ last' = Call("Copy", NULL)
               /\ UNCHANGED <<hp, sas, handle, netDelta>>
          ELSE /\ Within(r.M)
               /\ HasFreeHandle
               /\ Commit(r.M)
               /\ handle' = [handle EXCEPT ![FreeHandle] = r.ret]
               /\ last' = Call("Copy", r.ret)
  /\ UNCHANGED <<owned, charIsSigned, srt, heapLimit, io>>

Copy == Defined /\ \E h \in Handles : CopyCall(h)

\* handle[g] = sarrayClone(handle[h])
CloneCall(h) ==
  /\ Valid(h)
  /\ \E r \in {sarrayClone(CurMem, handle[h])} :
        IF r.ret = NULL
          THEN /\ last' = Call("Clone", NULL)
               /\ UNCHANGED <<hp, sas, handle>>
          ELSE /\ HasFreeHandle
               /\ hp' = r.M.hp
               /\ sas' = r.M.sas
               /\ handle' = [handle EXCEPT ![FreeHandle] = r.ret]
               /\ last' = Call("Clone", r.ret)
  /\ UNCHANGED <<owned, netDelta, charIsSigned, srt, heapLimit, io>>

Clone == Defined /\ \E h \in Handles : CloneCall(h)

\* sarrayAddString(handle[h], string, copyflag): the caller inserts only heap
\* strings it owns, and no longer owns a string it has inserted
CallerStrings ==
  {StrArg(NULL, <<>>)} \cup { StrAt(CurMem, p) : p \in owned }
    \cup { StrArg(STATIC, v) : v \in CallerValues }

AddStringCall(h, string, copyflag) ==
  /\ Valid(h)
  /\ copyflag = L_INSERT => string.ptr # STATIC
  /\ \E r \in {sarrayAddString(CurMem, handle[h], string, copyflag)} :
        /\ Within(r.M)
        /\ Commit(r.M)
        /\ owned' = IF r.ret = 0 /\ copyflag = L_INSERT
                      THEN owned \ {string.ptr} ELSE owned
        /\ last' = Call("AddString", r.ret)
  /\ UNCHANGED <<handle, charIsSigned, srt, heapLimit, io>>

AddString ==
  Defined /\ \E h \in Handles, copyflag \in {L_INSERT, L_COPY, 2}, string \in CallerStrings :
               AddStringCall(h, string, copyflag)

\* string = sarrayRemoveString(handle[h], index): the caller owns the result
RemoveStringCall(h, index) ==
  /\ Valid(h)
  /\ \E r \in {sarrayRemoveString(CurMem, handle[h], index)} :
        /\ r.ret # NULL => Cardinality(owned) < MaxOwned
        /\ Commit(r.M)
        /\ owned' = IF r.ret = NULL THEN owned ELSE owned \cup {r.ret}
        /\ last' = Call("RemoveString", r.ret)
  /\ UNCHANGED <<handle, charIsSigned, srt, heapLimit, io>>

RemoveString ==
  Defined /\ \E h \in Handles, index \in RemoveIndexes : RemoveStringCall(h, index)

\* sarrayClear(handle[h])
ClearCall(h) ==
  /\ Valid(h)
  /\ \E M \in {sarrayClear(CurMem, handle[h])} : Commit(M)
  /\ \E ret \in sarrayClearReturns(handle[h]) : last' = Call("Clear", ret)
  /\ UNCHANGED <<handle, owned, charIsSigned, srt, heapLimit, io>>

Clear == Defined /\ \E h \in Handles : ClearCall(h)

\* sarrayConcatenate(handle[h1], handle[h2])
ConcatenateCall(h1, h2) ==
  /\ Valid(h1) /\ Valid(h2)
  /\ \E r \in {sarrayConcatenate(CurMem, handle[h1], handle[h2])} :
        /\ Within(r.M)
        /\ Commit(r.M)
        /\ last' = Call("Concatenate", r.ret)
  /\ UNCHANGED <<handle, owned, charIsSigned, srt, heapLimit, io>>

Concatenate == Defined /\ \E h1 \in Handles, h2 \in Handles : ConcatenateCall(h1, h2)

\* saout = sarraySort(handle[hout], handle[hin], sortorder); hout = 0 passes NULL
SortCall(hout, hin, sortorder) ==
  /\ Valid(hin)
  /\ hout # 0 => Valid(hout)
  /\ LET saout == IF hout = 0 THEN NULL ELSE handle[hout]
     IN \E r \in {sarraySort(CurMem, saout, handle[hin], sortorder)} :
        /\ Within(r.M)
        /\ Commit(r.M)
        /\ IF r.ret # NULL /\ saout = NULL
             THEN /\ HasFreeHandle
                  /\ handle' = [handle EXCEPT ![FreeHandle] = r.ret]
             ELSE handle' = handle
        /\ last' = Call("Sort", r.ret)
  /\ UNCHANGED <<owned, charIsSigned, srt, heapLimit, io>>

Sort ==
  Defined /\ \E hout \in {0} \cup Handles, hin \in Handles,
                sortorder \in {L_SORT_INCREASING, L_SORT_DECREASING} :
               SortCall(hout, hin, sortorder)

\* The caller makes a heap string of its own, or frees one it owns.
CallerNewCall(v) ==
  \E r \in {stringNew(CurMem, v)} :
     /\ Within(r.M)
     /\ Cardinality(owned) < MaxOwned
     /\ Commit(r.M)
     /\ owned' = owned \cup {r.ret}
     /\ last' = Call("CallerNew", r.ret)
     /\ UNCHANGED <<handle, charIsSigned, srt, heapLimit, io>>

CallerNew == Defined /\ \E v \in CallerValues : CallerNewCall(v)

CallerFreeCall(p) ==
  /\ hp' = Free(hp, p)
  /\ owned' = owned \ {p}
  /\ last' = Call("CallerFree", 0)
  /\ UNCHANGED <<sas, handle, netDelta, charIsSigned, srt, heapLimit, io>>

CallerFree == Defined /\ \E p \in owned : CallerFreeCall(p)

\* The caller overwrites a buffer it owns.
CallerWriteCall(p, v) ==
  /\ hp' = [hp EXCEPT ![p].val = v]
  /\ last' = Call("CallerWrite", 0)
  /\ UNCHANGED <<sas, handle, owned, netDelta, charIsSigned, srt, heapLimit, io>>

CallerWrite == Defined /\ \E p \in owned, v \in CallerValues : CallerWriteCall(p, v)

\* sarrayChangeRefcount(handle[h], d), called directly
ChangeRefcountCall(h, d) ==
  /\ Valid(h)
  /\ LET sa == handle[h]
         r == sarrayChangeRefcount(CurMem, sa, d)
     IN /\ sa # NULL => /\ sas[sa].refcount + d <= MaxRefcount
                        /\ sas[sa].refcount + d >= -MaxRefcount
        /\ hp' = r.M.hp
        /\ sas' = r.M.sas
        /\ netDelta' = IF sa = NULL THEN netDelta ELSE [netDelta EXCEPT ![sa] = @ + d]
        /\ last' = Call("ChangeRefcount", r.ret)
  /\ UNCHANGED <<handle, owned, charIsSigned, srt, heapLimit, io>>

ChangeRefcount ==
  Defined /\ \E h \in Handles, d \in (-MaxDelta)..MaxDelta : ChangeRefcountCall(h, d)

\* Any call through a pointer to a struct that was freed reads freed memory:
\* the behaviour is undefined, and the run ends in a state that stands for
\* every outcome.
UseAfterFree ==
  /\ Defined
  /\ \E h \in Handles : ~Valid(h)
  /\ last' = Call("undefined", 0)
  /\ UNCHANGED <<hp, sas, handle, owned, netDelta, charIsSigned, srt, heapLimit, io>>

\* The plain char of the x64 builds is signed; the strings of these runs are
\* ASCII, which compare the same either way.
InitCalls(nheap, nsa) ==
  /\ InitHeap
  /\ io = NoIO
  /\ heapLimit = [heap |-> nheap, sa |-> nsa]
  /\ charIsSigned = TRUE
  /\ srt = [done |-> TRUE, input |-> <<>>, sortorder |-> L_SORT_INCREASING,
            output |-> <<>>]

\* Arrays built by appending, shared, concatenated and released.
Init == InitCalls(MaxHeap, MaxSa)

Next ==
  \/ Create
  \/ AddString
  \/ Clone
  \/ Destroy
  \/ Concatenate

Spec == Init /\ [][Next]_vars

\* Arrays built by appending and sorted into each kind of destination.
NextModes ==
  \/ Create
  \/ AddString
  \/ Sort

SpecModes == Init /\ [][NextModes]_vars

\* Every call that creates, moves, copies or frees a string.
InitOwn == InitCalls(MaxHeapOwn, MaxSa)

NextOwn ==
  \/ Create
  \/ AddString
  \/ RemoveString
  \/ Clear
  \/ Copy
  \/ Concatenate
  \/ Sort
  \/ Clone
  \/ Destroy
  \/ CallerNew
  \/ CallerFree

SpecOwn == InitOwn /\ [][NextOwn]_vars

\* The calls that change an array's length or capacity.
NextGrow ==
  \/ Create
  \/ CreateWordsFromString
  \/ CreateLinesFromString
  \/ AddString
  \/ RemoveString
  \/ Clear
  \/ Concatenate

InitGrow == InitCalls(MaxHeapGrow, MaxSaGrow)

SpecGrow == InitGrow /\ [][NextGrow]_vars

\* The calls that change a reference count.
NextRefcount ==
  \/ Create
  \/ Clone
  \/ Destroy
  \/ ChangeRefcount
  \/ UseAfterFree

SpecRefcount == Init /\ [][NextRefcount]_vars

\* Strings added from buffers the caller goes on to overwrite or free.
NextCopy ==
  \/ Create
  \/ CallerNew
  \/ AddString
  \/ CallerWrite
  \/ CallerFree

SpecCopy == InitGrow /\ [][NextCopy]_vars

\* ------------------------------------------------------------------------
\* The sort harness: sarraySort(NULL, sain, sortorder) on an array whose
\* i-th pointer points to the i-th string of srt.input.
\* ------------------------------------------------------------------------
SortStrings ==
  { <<>>, <<97>>, <<97, 98>>, <<67>>, <<200>> }

SortInputs ==
  UNION { [1..k -> SortStrings] : k \in 0..MaxSortLen }
    \cup { << <<98, 97, 110, 97, 110, 97>>, <<97, 112, 112, 108, 101>>,
              <<67, 104, 101, 114, 114, 121>> >> }

InitSort ==
  /\ InitHeap
  /\ io = NoIO
  /\ heapLimit = [heap |-> 0, sa |-> 0]
  /\ charIsSigned \in BOOLEAN
  /\ \E a \in SortInputs, o \in {L_SORT_INCREASING, L_SORT_DECREASING} :
       srt = [done |-> FALSE, input |-> a, sortorder |-> o, output |-> <<>>]

SortStep ==
  /\ ~srt.done
  /\ LET n == Len(srt.input)
         sorted == ShellSort([k \in 1..n |-> k], n, srt.sortorder, srt.input)
     IN srt' = [srt EXCEPT !.done = TRUE,
                           !.output = [k \in 1..n |-> srt.input[sorted[k]]]]
  /\ UNCHANGED <<charIsSigned, heapVars, io>>

NextSort == SortStep

SpecSort == InitSort /\ [][NextSort]_vars

\* ------------------------------------------------------------------------
\* The stream harness.  kind "array": an array holding io.strings is built,
\* written, read back and written again.  kind "header" and the other kinds:
\* sarrayReadStream() is given the bytes io.file.
\* ------------------------------------------------------------------------
Long(len) == [k \in 1..len |-> 97]

\* "", " ", "\n", "1", "a", " 1", "a\nb", "1]:"
IOStrings ==
  { <<>>, <<32>>, <<10>>, <<49>>, <<97>>, <<32, 49>>, <<97, 10, 98>>, <<49, 93, 58>> }

\* Short arrays, and arrays with strings at and beyond the size of stringbuf
IOArrays ==
  UNION { [1..k -> IOStrings] : k \in 0..MaxIOLen }
    \cup { << Long(L_BUF_SIZE - 4) >>, << Long(L_BUF_SIZE - 3) >>,
           << Long(L_BUF_SIZE - 3), <<98>> >>,
           << <<98>>, Long(L_BUF_SIZE - 3), Long(2 * L_BUF_SIZE), <<>> >> }

\* The pieces of a header: what precedes it, "Sarray" or not, what separates
\* the words, "Version" or not, what precedes the number, the number, the rest
HeaderLead == { <<>>, <<32, 10, 9>>, <<120>> }
HeaderWord1 == { <<83, 97, 114, 114, 97, 121>>, <<115, 97, 114, 114, 97, 121>> }
HeaderSep == { <<32>>, <<>>, <<10>>, <<32, 9>> }
HeaderWord2 == { <<86, 101, 114, 115, 105, 111, 110>>, <<118, 101, 114, 115, 105, 111, 110>> }
HeaderNumber == { <<49>>, <<50>>, <<48, 49>>, <<43, 49>>, <<45, 49>>, <<49, 50>>,
                  <<120>>, <<>> }
\* "", "\nNumber of strings = 0\n\n"
HeaderRest == { <<>>, <<10, 78, 117, 109, 98, 101, 114, 32, 111, 102, 32, 115, 116, 114, 105, 110, 103, 115, 32, 61, 32, 48, 10, 10>> }

HeaderFiles ==
  { l \o w1 \o s1 \o w2 \o s2 \o n \o r :
      l \in HeaderLead, w1 \in HeaderWord1, s1 \in HeaderSep, w2 \in HeaderWord2,
      s2 \in HeaderSep, n \in HeaderNumber, r \in HeaderRest }

\* "\nSarray Version 1\n", as sarrayWriteStream() writes it
ValidHeader == fprintf(FmtVersion, 1, <<SARRAY_VERSION_NUMBER>>)

\* Files with a valid header whose content disagrees with what it declares,
\* by the kind of the disagreement; "agrees" is a file as written.
BodyFiles ==
  { [kind |-> "agrees", body |-> <<78, 117, 109, 98, 101, 114, 32, 111, 102, 32, 115, 116, 114, 105, 110, 103, 115, 32, 61, 32, 49, 10, 32, 32, 48, 91, 49, 93, 58, 32, 32, 97, 10, 10>>],
    [kind |-> "count line missing", body |-> <<32, 32, 48, 91, 49, 93, 58, 32, 32, 97, 10, 10>>],
    [kind |-> "count unparsable", body |-> <<78, 117, 109, 98, 101, 114, 32, 111, 102, 32, 115, 116, 114, 105, 110, 103, 115, 32, 61, 32, 120, 10, 32, 32, 48, 91, 49, 93, 58, 32, 32, 97, 10, 10>>],
    [kind |-> "fewer records", body |-> <<78, 117, 109, 98, 101, 114, 32, 111, 102, 32, 115, 116, 114, 105, 110, 103, 115, 32, 61, 32, 50, 10, 32, 32, 48, 91, 49, 93, 58, 32, 32, 97, 10, 10>>],
    [kind |-> "length too long", body |-> <<78, 117, 109, 98, 101, 114, 32, 111, 102, 32, 115, 116, 114, 105, 110, 103, 115, 32, 61, 32, 49, 10, 32, 32, 48, 91, 53, 93, 58, 32, 32, 97, 10, 10>>],
    [kind |-> "length too short", body |-> <<78, 117, 109, 98, 101, 114, 32, 111, 102, 32, 115, 116, 114, 105, 110, 103, 115, 32, 61, 32, 49, 10, 32, 32, 48, 91, 49, 93, 58, 32, 32, 97, 98, 99, 10, 10>>],
    [kind |-> "length unparsable", body |-> <<78, 117, 109, 98, 101, 114, 32, 111, 102, 32, 115, 116, 114, 105, 110, 103, 115, 32, 61, 32, 49, 10, 32, 32, 48, 91, 120, 93, 58, 32, 32, 97, 10, 10>>],
    [kind |-> "index unparsable", body |-> <<78, 117, 109, 98, 101, 114, 32, 111, 102, 32, 115, 116, 114, 105, 110, 103, 115, 32, 61, 32, 49, 10, 32, 32, 120, 91, 49, 93, 58, 32, 32, 97, 10, 10>>],
    [kind |-> "ends early", body |-> <<78, 117, 109, 98, 101, 114, 32, 111, 102, 32, 115, 116, 114, 105, 110, 103, 115, 32, 61, 32, 50, 10, 32, 32, 48, 91, 49, 93, 58, 32, 32, 97, 10, 32, 32, 49, 91, 51, 93, 58, 32, 32, 98>>] }

InitIO ==
  /\ InitHeap
  /\ heapLimit = [heap |-> 0, sa |-> 0]
  /\ charIsSigned = TRUE
  /\ srt = [done |-> TRUE, input |-> <<>>, sortorder |-> L_SORT_INCREASING,
            output |-> <<>>]
  /\ \/ \E a \in IOArrays :
          io = [phase |-> "start", kind |-> "array", strings |-> a,
                file |-> <<>>, file2 |-> <<>>]
     \/ \E f \in HeaderFiles :
          io = [phase |-> "written", kind |-> "header", strings |-> <<>>,
                file |-> f, file2 |-> <<>>]
     \/ \E f \in BodyFiles :
          io = [phase |-> "written", kind |-> f.kind, strings |-> <<>>,
                file |-> ValidHeader \o f.body, file2 |-> <<>>]

\* handle[1] = sarrayCreate(0), then sarrayAddString(handle[1], s, L_COPY) for
\* each string of io.strings
RECURSIVE BuildLoop(_, _, _, _)
BuildLoop(M, sa, strings, i) ==
  IF i > Len(strings) THEN M
  ELSE BuildLoop(sarrayAddString(M, sa, StrArg(STATIC, strings[i]), L_COPY).M,
                 sa, strings, i + 1)

IOBuild ==
  /\ io.phase = "start"
  /\ \E c \in {sarrayCreate(CurMem, 0)} :
       /\ Commit(BuildLoop(c.M, c.ret, io.strings, 1))
       /\ handle' = [handle EXCEPT ![1] = c.ret]
       /\ last' = Call("Create", c.ret)
  /\ io' = [io EXCEPT !.phase = "built"]
  /\ UNCHANGED <<owned, charIsSigned, srt, heapLimit>>

\* sarrayWriteStream(fp, handle[1])
IOWrite ==
  /\ io.phase = "built"
  /\ \E w \in {sarrayWriteStream(CurMem, handle[1])} :
       /\ io' = [io EXCEPT !.phase = "written", !.file = w.bytes]
       /\ last' = Call("WriteStream", w.ret)
  /\ UNCHANGED <<hp, sas, handle, owned, netDelta, charIsSigned, srt, heapLimit>>

\* handle[2] = sarrayReadStream(fp) on a stream holding io.file.  A call that
\* went outside stringbuf may end the process or may go on.
IORead ==
  /\ io.phase = "written"
  /\ \E un \in UninitInts, us \in UninitInts :
       \E r \in {sarrayReadStream(CurMem, io.file, [n |-> un, size |-> us])} :
         /\ Commit(r.M)
         /\ handle' = [handle EXCEPT ![2] = r.ret]
         /\ last' = Call("ReadStream", r.ret)
         /\ IF r.ub
              THEN \E phase \in {"read", "crashed"} : io' = [io EXCEPT !.phase = phase]
              ELSE io' = [io EXCEPT !.phase = "read"]
  /\ UNCHANGED <<owned, charIsSigned, srt, heapLimit>>

\* sarrayWriteStream(fp2, handle[2])
IOWriteAgain ==
  /\ io.phase = "read"
  /\ \E w \in {sarrayWriteStream(CurMem, handle[2])} :
       /\ io' = [io EXCEPT !.phase = "rewritten", !.file2 = w.bytes]
       /\ last' = Call("WriteStream", w.ret)
  /\ UNCHANGED <<hp, sas, handle, owned, netDelta, charIsSigned, srt, heapLimit>>

NextIO ==
  \/ IOBuild
  \/ IOWrite
  \/ IORead
  \/ IOWriteAgain

SpecIO == InitIO /\ [][NextIO]_vars

\* ------------------------------------------------------------------------
\* The string harness: handle[1] is built from io.strings as above, then one
\* call of sarrayToStringRange or of sarrayToString is made on it; io keeps
\* the arguments of the call and the caller owns dest.
\* ------------------------------------------------------------------------
\* "", "a", "bc", " ", "\n"
JoinStrings == { <<>>, <<97>>, <<98, 99>>, <<32>>, <<10>> }
JoinArrays == UNION { [1..k -> JoinStrings] : k \in 0..MaxJoinLen }
ToStringFirsts == (0 - 1)..MaxJoinLen
ToStringCounts == 0..(MaxJoinLen + 1)
ToStringFlags == 0..3

InitJoin ==
  /\ InitHeap
  /\ heapLimit = [heap |-> 0, sa |-> 0]
  /\ charIsSigned = TRUE
  /\ srt = [done |-> TRUE, input |-> <<>>, sortorder |-> L_SORT_INCREASING,
            output |-> <<>>]
  /\ \E a \in JoinArrays :
        io = [phase |-> "start", strings |-> a, first |-> 0, nstrings |-> 0,
              addnlflag |-> 0]

ToStringResult(op, r, first, nstrings, addnlflag) ==
  /\ Commit(r.M)
  /\ owned' = IF r.ret = NULL THEN owned ELSE owned \cup {r.ret}
  /\ last' = Call(op, r.ret)
  /\ io' = [io EXCEPT !.phase = "joined", !.first = first, !.nstrings = nstrings,
                      !.addnlflag = addnlflag]
  /\ UNCHANGED <<handle, charIsSigned, srt, heapLimit>>

\* dest = sarrayToStringRange(handle[1], first, nstrings, addnlflag)
ToStringRange ==
  /\ io.phase = "built"
  /\ \E first \in ToStringFirsts, nstrings \in ToStringCounts, addnlflag \in ToStringFlags :
       \E r \in {sarrayToStringRange(CurMem, handle[1], first, nstrings, addnlflag)} :
         ToStringResult("ToStringRange", r, first, nstrings, addnlflag)

\* dest = sarrayToString(handle[1], addnlflag)
ToStringAll ==
  /\ io.phase = "built"
  /\ \E addnlflag \in ToStringFlags :
       \E r \in {sarrayToString(CurMem, handle[1], addnlflag)} :
         ToStringResult("ToString", r, 0, 0, addnlflag)

NextJoin ==
  \/ IOBuild
  \/ ToStringRange
  \/ ToStringAll

SpecJoin == InitJoin /\ [][NextJoin]_vars

\* ------------------------------------------------------------------------
\* The text harness: one call of sarrayCreateLinesFromString or of
\* sarrayCreateWordsFromString on io.text, its result in handle[1].
\* ------------------------------------------------------------------------
TextBytes == { 97, 98, SP, TAB, NL }
\* "a\n\nb", "  a  bb   c "
TextExamples ==
  { <<97, 10, 10, 98>>, <<32, 32, 97, 32, 32, 98, 98, 32, 32, 32, 99, 32>> }
Texts == UNION { [1..k -> TextBytes] : k \in 0..MaxTextLen } \cup TextExamples

InitText ==
  /\ InitHeap
  /\ heapLimit = [heap |-> 0, sa |-> 0]
  /\ charIsSigned = TRUE
  /\ srt = [done |-> TRUE, input |-> <<>>, sortorder |-> L_SORT_INCREASING,
            output |-> <<>>]
  /\ \E t \in Texts : io = [phase |-> "start", text |-> t, blankflag |-> 0]

TextResult(op, r) ==
  /\ Commit(r.M)
  /\ handle' = [handle EXCEPT ![1] = r.ret]
  /\ last' = Call(op, r.ret)
  /\ UNCHANGED <<owned, charIsSigned, srt, heapLimit>>

\* handle[1] = sarrayCreateLinesFromString(io.text, blankflag)
TextLines ==
  /\ io.phase = "start"
  /\ \E blankflag \in {0, 1} :
       /\ TextResult("CreateLines", sarrayCreateLinesFromString(CurMem, io.text, blankflag))
       /\ io' = [io EXCEPT !.phase = "lines", !.blankflag = blankflag]

\* handle[1] = sarrayCreateWordsFromString(io.text)
TextWords ==
  /\ io.phase = "start"
  /\ TextResult("CreateWords", sarrayCreateWordsFromString(CurMem, io.text))
  /\ io' = [io EXCEPT !.phase = "words"]

NextText ==
  \/ TextLines
  \/ TextWords

SpecText == InitText /\ [][NextText]_vars

\* ------------------------------------------------------------------------
\* The reflow harness: handle[1] is built from io.strings as above, then
\* handle[2] = sarrayConvertWordsToLines(handle[1], linesize).
\* ------------------------------------------------------------------------
\* "", "a", "bb", "cccc", "a b"
ReflowWords == { <<>>, <<97>>, <<98, 98>>, <<99, 99, 99, 99>>, <<97, 32, 98>> }
\* "aa", "bb", "cc"
ReflowExample == << <<97, 97>>, <<98, 98>>, <<99, 99>> >>
ReflowArrays == UNION { [1..k -> ReflowWords] : k \in 0..MaxReflowLen } \cup {ReflowExample}
LineSizes == (0 - 1)..MaxLineSize

InitReflow ==
  /\ InitHeap
  /\ heapLimit = [heap |-> 0, sa |-> 0]
  /\ charIsSigned = TRUE
  /\ srt = [done |-> TRUE, input |-> <<>>, sortorder |-> L_SORT_INCREASING,
            output |-> <<>>]
  /\ \E a \in ReflowArrays : io = [phase |-> "start", strings |-> a, linesize |-> 0]

ConvertWordsToLines ==
  /\ io.phase = "built"
  /\ \E linesize \in LineSizes :
       \E r \in {sarrayConvertWordsToLines(CurMem, handle[1], linesize)} :
         /\ Commit(r.M)
         /\ handle' = [handle EXCEPT ![2] = r.ret]
         /\ last' = Call("ConvertWordsToLines", r.ret)
         /\ io' = [io EXCEPT !.phase = "reflowed", !.linesize = linesize]
  /\ UNCHANGED <<owned, charIsSigned, srt, heapLimit>>

NextReflow ==
  \/ IOBuild
  \/ ConvertWordsToLines

SpecReflow == InitReflow /\ [][NextReflow]_vars

\* ------------------------------------------------------------------------
\* The comparator harness: stringCompareLexical(io.str1, io.str2) on two
\* strings of bytes, in a build with signed and in a build with unsigned
\* plain char.
\* ------------------------------------------------------------------------
CompareBytes == { 1, 65, 97, 128, 255 }

CompareStrings == UNION { [1..k -> CompareBytes] : k \in 0..MaxCompareLen }

InitCompare ==
  /\ InitHeap
  /\ heapLimit = [heap |-> 0, sa |-> 0]
  /\ charIsSigned \in BOOLEAN
  /\ srt = [done |-> TRUE, input |-> <<>>, sortorder |-> L_SORT_INCREASING,
            output |-> <<>>]
  /\ \E s1 \in CompareStrings, s2 \in CompareStrings :
       io = [phase |-> "start", str1 |-> s1, str2 |-> s2, ret |-> 0]

CompareLexical ==
  /\ io.phase = "start"
  /\ \E r \in {stringCompareLexical(io.str1, io.str2)} :
       /\ io' = [io EXCEPT !.phase = "compared", !.ret = r]
       /\ last' = Call("CompareLexical", r)
  /\ UNCHANGED <<hp, sas, handle, owned, netDelta, charIsSigned, srt, heapLimit>>

NextCompare == CompareLexical

SpecCompare == InitCompare /\ [][NextCompare]_vars

\* ------------------------------------------------------------------------
\* The allocation harness: handle[1] = sarrayCreate(io.nalloc) holding
\* io.strings, the caller's heap string io.buffer, and one more
\* sarrayAddString during which reallocNew or stringNew may get no memory.
\* ------------------------------------------------------------------------
\* What io.before holds until the call is made
NoStruct == [array |-> NoArray, nalloc |-> 0, n |-> 0, refcount |-> 0, frees |-> 0]

FailArrays == UNION { [1..k -> CallerValues] : k \in 0..MaxFailLen }

Allocs == [array : BOOLEAN, string : BOOLEAN]

InitFail ==
  /\ InitHeap
  /\ heapLimit = [heap |-> 0, sa |-> 0]
  /\ charIsSigned = TRUE
  /\ srt = [done |-> TRUE, input |-> <<>>, sortorder |-> L_SORT_INCREASING,
            output |-> <<>>]
  /\ \E a \in FailArrays, nalloc \in {1, 2} :
       io = [phase |-> "start", strings |-> a, nalloc |-> nalloc, buffer |-> NULL,
             before |-> NoStruct, copyflag |-> L_COPY,
             alloc |-> [array |-> TRUE, string |-> TRUE]]

\* handle[1] = sarrayCreate(io.nalloc), a copy of each string of io.strings
\* added, and io.buffer = stringNew("a")
FailBuild ==
  /\ io.phase = "start"
  /\ \E c \in {sarrayCreate(CurMem, io.nalloc)} :
       \E b \in {stringNew(BuildLoop(c.M, c.ret, io.strings, 1), <<97>>)} :
         /\ Commit(b.M)
         /\ handle' = [handle EXCEPT ![1] = c.ret]
         /\ owned' = {b.ret}
         /\ io' = [io EXCEPT !.phase = "built", !.buffer = b.ret]
         /\ last' = Call("Create", c.ret)
  /\ UNCHANGED <<charIsSigned, srt, heapLimit>>

\* sarrayAddString(handle[1], string, copyflag) with the allocations going as
\* alloc says.  A call that stored through a NULL array pointer may end
\* the process or may go on.
AddStringAlloc ==
  /\ io.phase = "built"
  /\ \E copyflag \in {L_INSERT, L_COPY}, alloc \in Allocs,
        string \in {StrAt(CurMem, io.buffer), StrArg(STATIC, <<98>>)} :
       /\ copyflag = L_INSERT => string.ptr # STATIC
       /\ \E r \in {sarrayAddStringAlloc(CurMem, handle[1], string, copyflag, alloc)} :
            /\ Commit(r.M)
            /\ owned' = IF r.ret = 0 /\ copyflag = L_INSERT
                          THEN owned \ {string.ptr} ELSE owned
            /\ last' = Call("AddString", r.ret)
            /\ \E phase \in (IF r.ub THEN {"added", "crashed"} ELSE {"added"}) :
                 io' = [io EXCEPT !.phase = phase, !.before = sas[handle[1]],
                                  !.copyflag = copyflag, !.alloc = alloc]
  /\ UNCHANGED <<handle, charIsSigned, srt, heapLimit>>

NextFail == FailBuild \/ AddStringAlloc

SpecFail == InitFail /\ [][NextFail]_vars

\* ------------------------------------------------------------------------
\* C7: sarraySort returns a permutation of its input in which no element is
\* lexically greater (Increasing) or smaller (Decreasing) than the element
\* after it under stringCompareLexical, for every length.
\* ------------------------------------------------------------------------
Occurrences(seq, x) == Cardinality({ k \in 1..Len(seq) : seq[k] = x })

IsPermutation(a, b) ==
  /\ Len(a) = Len(b)
  /\ \A k \in 1..Len(a) : Occurrences(a, a[k]) = Occurrences(b, a[k])

InSortOrder(seq, sortorder) ==
  \A k \in 1..(Len(seq) - 1) :
    IF sortorder = L_SORT_INCREASING
      THEN stringCompareLexical(seq[k], seq[k + 1]) = 0
      ELSE stringCompareLexical(seq[k + 1], seq[k]) = 0

Banana == <<98, 97, 110, 97, 110, 97>>
Apple == <<97, 112, 112, 108, 101>>
Cherry == <<67, 104, 101, 114, 114, 121>>

C7_SortResult ==
  srt.done =>
    /\ IsPermutation(srt.input, srt.output)
    /\ InSortOrder(srt.output, srt.sortorder)
    /\ (srt.input = <<Banana, Apple, Cherry>> /\ srt.sortorder = L_SORT_INCREASING
          => srt.output = <<Cherry, Apple, Banana>>)

\* A three-element input (not a power of two) that the sort had to reorder.
C7_Witness ==
  /\ srt.done
  /\ srt.input = <<Banana, Apple, Cherry>>
  /\ srt.sortorder = L_SORT_INCREASING
  /\ srt.output = <<Cherry, Apple, Banana>>

\* ------------------------------------------------------------------------
\* C2: for an array created once and cloned k times, under every ordering of
\* the Clone and Destroy calls, the struct and each element string are freed
\* exactly once, by the Destroy through the last remaining handle and by no
\* earlier one; an earlier Destroy leaves the elements as the remaining
\* handles saw them; every Destroy leaves NULL in the handle it was given.
\* ------------------------------------------------------------------------
NumHandles(sa) == Cardinality({ h \in Handles : handle[h] = sa })

Live(sa) == sas[sa].frees = 0

C2_State ==
  /\ \A p \in 1..Len(hp) : hp[p].frees <= 1
  /\ \A sa \in 1..Len(sas) :
       /\ sas[sa].frees <= 1
       /\ Live(sa) <=> NumHandles(sa) >= 1
       /\ Live(sa) =>
            /\ sas[sa].refcount = NumHandles(sa)
            /\ \A i \in 1..sas[sa].n : hp[sas[sa].array[i]].frees = 0

C2_Destroy(h) ==
  /\ handle'[h] = NULL
  /\ handle[h] # NULL =>
       LET sa == handle[h]
           elements == { sas[sa].array[i] : i \in 1..sas[sa].n }
       IN IF NumHandles(sa) > 1
            THEN /\ hp' = hp
                 /\ sas' = [sas EXCEPT ![sa].refcount = @ - 1]
            ELSE /\ sas'[sa].frees = 1
                 /\ \A p \in 1..Len(hp) :
                      hp'[p].frees = IF p \in elements THEN 1 ELSE hp[p].frees
                 /\ \A t \in 1..Len(sas) : t # sa => sas'[t] = sas[t]

C2_RefcountLifecycle ==
  [][/\ C2_State'
     /\ \A h \in Handles : last'.op = "Destroy" /\ DestroyCall(h) => C2_Destroy(h)]_vars

\* The array made first was cloned, and the handle it was made into has been
\* destroyed: the clone still sees the elements.
C2_Witness ==
  /\ last.op = "Destroy"
  /\ handle[1] = NULL
  /\ handle[2] = 1
  /\ Live(1)
  /\ sas[1].refcount = 1
  /\ sas[1].n >= 1
  /\ hp[sas[1].array[1]].frees = 0

\* ------------------------------------------------------------------------
\* C3 as stated: in every state reachable by Create, Clone, Destroy and
\* sarrayChangeRefcount(delta), an array instance that has not been freed has
\* refcount >= 1.
\* ------------------------------------------------------------------------
C3_Original ==
  \A sa \in 1..Len(sas) : Live(sa) => sas[sa].refcount >= 1

\* ------------------------------------------------------------------------
\* C3 as the code has it: the refcount of an instance that has not been freed
\* is the number of handles that refer to it plus the sum of the deltas given
\* directly to sarrayChangeRefcount, so it is >= 1 whenever that sum is not
\* negative; sarrayChangeRefcount only adds delta to the count and frees
\* nothing, whatever the count becomes; an instance is freed only by
\* sarrayDestroy, in the very call whose decrement brings the count to zero
\* or below.
\* ------------------------------------------------------------------------
C3_State ==
  \A sa \in 1..Len(sas) :
    Live(sa) =>
      /\ sas[sa].refcount = NumHandles(sa) + netDelta[sa]
      /\ netDelta[sa] >= 0 => sas[sa].refcount >= 1

C3_Change(h, d) ==
  handle[h] # NULL =>
    /\ sas' = [sas EXCEPT ![handle[h]].refcount = @ + d]
    /\ hp' = hp

C3_Destroy(h) ==
  handle[h] # NULL =>
    LET sa == handle[h]
    IN /\ sas'[sa].frees = 1 <=> sas[sa].refcount - 1 <= 0
       /\ sas'[sa].frees = 0 => sas'[sa].refcount = sas[sa].refcount - 1

C3_OnlyDestroyFrees ==
  \A sa \in 1..Len(sas) :
    sas'[sa].frees > sas[sa].frees => \E h \in Handles : DestroyCall(h) /\ handle[h] = sa

C3_RefcountInvariant ==
  [][/\ C3_State'
     /\ C3_OnlyDestroyFrees
     /\ \A h \in Handles :
          /\ DestroyCall(h) => C3_Destroy(h)
          /\ \A d \in (-MaxDelta)..MaxDelta : ChangeRefcountCall(h, d) => C3_Change(h, d)]_vars

\* A direct sarrayChangeRefcount has left an instance that is not freed with
\* a count of zero.
C3_Witness ==
  /\ last.op = "ChangeRefcount"
  /\ \E h \in Handles :
       /\ handle[h] # NULL
       /\ Live(handle[h])
       /\ netDelta[handle[h]] < 0
       /\ sas[handle[h]].refcount = 0

\* ------------------------------------------------------------------------
\* C4: after any sequence of Create, copying and inserting Add (of a string
\* the caller owns and hands over), RemoveString, Clear, Copy, Concatenate,
\* Sort, Clone and Destroy, no heap string has been freed twice and no heap
\* string is held by two live slots, of one array or of two; a string that
\* RemoveString returned is in no live slot and is not freed by the array.
\* ------------------------------------------------------------------------
LiveSlots ==
  UNION { { <<sa, i>> : i \in 1..sas[sa].n } : sa \in { t \in 1..Len(sas) : Live(t) } }

SlotPtr(slot) == sas[slot[1]].array[slot[2]]

C4_SingleOwner ==
  /\ \A p \in 1..Len(hp) : hp[p].frees <= 1
  /\ \A s \in LiveSlots :
       /\ SlotPtr(s) \in 1..Len(hp)
       /\ hp[SlotPtr(s)].frees = 0
       /\ \A t \in LiveSlots : s # t => SlotPtr(s) # SlotPtr(t)
  /\ \A p \in owned :
       /\ hp[p].frees = 0
       /\ \A s \in LiveSlots : SlotPtr(s) # p

\* An array was cleared after RemoveString had emptied it: the string the
\* caller got is still where the array's first slot points, and is not freed.
C4_Witness ==
  /\ last.op = "Clear"
  /\ \E sa \in 1..Len(sas) :
       /\ Live(sa)
       /\ sas[sa].n = 0
       /\ sas[sa].array[1] \in owned
       /\ hp[sas[sa].array[1]].frees = 0

\* ------------------------------------------------------------------------
\* C5: in every state reachable by Create(n) for any n, AddString,
\* RemoveString, Clear, Concatenate and the constructors from words and from
\* lines, 0 <= n <= nalloc and nalloc >= 1; nalloc changes only when a string
\* is added (by AddString, or by the AddString calls of Concatenate) to an
\* array whose n equals nalloc, and then it exactly doubles; the strings
\* already stored keep their values and order across the growth.
\* ------------------------------------------------------------------------
C5_State ==
  \A sa \in 1..Len(sas) :
    Live(sa) =>
      /\ 0 <= sas[sa].n
      /\ sas[sa].n <= sas[sa].nalloc
      /\ sas[sa].nalloc >= 1
      /\ Len(sas[sa].array) = sas[sa].nalloc

Contents(H, S, sa) == [i \in 1..S[sa].n |-> H[S[sa].array[i]].val]

RECURSIVE Doubled(_, _)
Doubled(nalloc, n) == IF n <= nalloc THEN nalloc ELSE Doubled(2 * nalloc, n)

C5_Step ==
  \A sa \in 1..Len(sas) :
    LET old == sas[sa]
        new == sas'[sa]
    IN /\ last'.op = "AddString" /\ new.n = old.n + 1 =>
            new.nalloc = IF old.n = old.nalloc THEN 2 * old.nalloc ELSE old.nalloc
       /\ last'.op = "Concatenate" => new.nalloc = Doubled(old.nalloc, new.n)
       /\ new.nalloc # old.nalloc =>
            /\ last'.op \in {"AddString", "Concatenate"}
            /\ new.n > old.nalloc
            /\ new.n > old.n
            /\ \A i \in 1..old.n : new.array[i] = old.array[i]
            /\ SubSeq(Contents(hp', sas', sa), 1, old.n) = Contents(hp, sas, sa)

C5_LengthCapacity == [][C5_State' /\ C5_Step]_vars

\* AddString has found an array of two slots full and has doubled it.
C5_Witness ==
  /\ last.op = "AddString"
  /\ Len(sas) >= 1
  /\ Live(1)
  /\ sas[1].n = 3
  /\ sas[1].nalloc = 4

\* ------------------------------------------------------------------------
\* C6 as stated: for every pair of handles dst and src given to
\* sarrayConcatenate, whether or not they refer to different instances, src
\* has afterwards the count and the elements it had, dst's count has grown by
\* src's previous count, dst's previous elements are where they were and the
\* appended elements are duplicates of src's elements in src's order.
\* ------------------------------------------------------------------------
C6_DstGrown(dst, src) ==
  /\ last'.ret = 0
  /\ sas'[dst].n = sas[dst].n + sas[src].n
  /\ \A i \in 1..sas[dst].n : sas'[dst].array[i] = sas[dst].array[i]
  /\ \A p \in 1..Len(hp) : hp'[p] = hp[p]
  /\ \A i \in (sas[dst].n + 1)..sas'[dst].n : sas'[dst].array[i] > Len(hp)
  /\ Contents(hp', sas', dst) = Contents(hp, sas, dst) \o Contents(hp, sas, src)

C6_SrcKept(src) ==
  /\ sas'[src].n = sas[src].n
  /\ Contents(hp', sas', src) = Contents(hp, sas, src)

C6_Original ==
  [][\A h1, h2 \in Handles :
       (last'.op = "Concatenate" /\ handle[h1] # NULL /\ handle[h2] # NULL
          /\ ConcatenateCall(h1, h2)) =>
         /\ C6_DstGrown(handle[h1], handle[h2])
         /\ C6_SrcKept(handle[h2])]_vars

\* ------------------------------------------------------------------------
\* C6 as the code has it: sarrayConcatenate(dst, src) leaves dst's previous
\* elements where they were and appends duplicates of the elements src had
\* before the call, in order, so that dst's count grows by src's previous
\* count; when src is another instance than dst it is left as it was; when
\* src and dst are the same instance its count doubles.
\* ------------------------------------------------------------------------
C6_Concatenate ==
  [][\A h1, h2 \in Handles :
       (last'.op = "Concatenate" /\ handle[h1] # NULL /\ handle[h2] # NULL
          /\ ConcatenateCall(h1, h2)) =>
         /\ C6_DstGrown(handle[h1], handle[h2])
         /\ IF handle[h1] # handle[h2]
              THEN sas'[handle[h2]] = sas[handle[h2]]
              ELSE sas'[handle[h2]].n = 2 * sas[handle[h2]].n]_vars

\* <<"b">> has been concatenated onto <<"a">>, an array of another instance.
C6_Witness ==
  /\ last.op = "Concatenate"
  /\ handle[1] = 1 /\ handle[2] = 2
  /\ Live(1) /\ Live(2)
  /\ Contents(hp, sas, 1) = << <<97>>, <<98>> >>
  /\ Contents(hp, sas, 2) = << <<98>> >>
  /\ sas[1].array[2] # sas[2].array[1]

\* ------------------------------------------------------------------------
\* C8: sarraySort(saout, sain, order) with saout NULL returns a new instance,
\* not sain, and leaves sain's elements, order, count and refcount as they
\* were; with saout the instance sain it sorts in place and returns that
\* instance; with saout another instance than sain it returns NULL and
\* leaves both as they were.
\* ------------------------------------------------------------------------
C8_Sorted(before, after, sortorder) ==
  /\ IsPermutation(before, after)
  /\ InSortOrder(after, sortorder)

C8_Sort(saout, sain, sortorder) ==
  IF saout = NULL
    THEN /\ last'.ret = Len(sas) + 1
         /\ last'.ret # sain
         /\ Len(sas') = Len(sas) + 1
         /\ \A sa \in 1..Len(sas) : sas'[sa] = sas[sa]
         /\ \A p \in 1..Len(hp) : hp'[p] = hp[p]
         /\ sas'[last'.ret].refcount = 1
         /\ sas'[last'.ret].frees = 0
         /\ \A i \in 1..sas'[last'.ret].n : sas'[last'.ret].array[i] > Len(hp)
         /\ C8_Sorted(Contents(hp, sas, sain), Contents(hp', sas', last'.ret), sortorder)
  ELSE IF saout = sain
    THEN /\ last'.ret = sain
         /\ hp' = hp
         /\ sas' = [sas EXCEPT ![sain].array = sas'[sain].array]
         /\ { sas'[sain].array[i] : i \in 1..sas[sain].n }
              = { sas[sain].array[i] : i \in 1..sas[sain].n }
         /\ C8_Sorted(Contents(hp, sas, sain), Contents(hp', sas', sain), sortorder)
  ELSE /\ last'.ret = NULL
       /\ hp' = hp
       /\ sas' = sas
       /\ handle' = handle

C8_SortModes ==
  [][\A hout \in {0} \cup Handles, hin \in Handles,
        sortorder \in {L_SORT_INCREASING, L_SORT_DECREASING} :
       last'.op = "Sort" /\ handle[hin] # NULL /\ SortCall(hout, hin, sortorder) =>
         C8_Sort(IF hout = 0 THEN NULL ELSE handle[hout], handle[hin], sortorder)]_vars

\* <<"b", "a">> was sorted into a new instance, or that instance in place.
C8_Witness ==
  /\ last.op = "Sort"
  /\ last.ret = 2
  /\ handle[1] = 1 /\ handle[2] = 2
  /\ Live(1) /\ Live(2)
  /\ Contents(hp, sas, 1) = << <<98>>, <<97>> >>
  /\ Contents(hp, sas, 2) = << <<97>>, <<98>> >>

\* ------------------------------------------------------------------------
\* C1: for every array of NUL-free strings (empty strings, strings with
\* newlines in them, strings that begin with spaces or digits, strings longer
\* than the reader's buffer), sarrayReadStream on the bytes that
\* sarrayWriteStream wrote returns an array with the same count and the same
\* elements in the same order, and writing that array gives the same bytes.
\* ------------------------------------------------------------------------
C1_RoundTrip ==
  io.kind = "array" =>
    /\ io.phase # "crashed"
    /\ io.phase \in {"read", "rewritten"} =>
         /\ handle[2] # NULL
         /\ handle[2] # handle[1]
         /\ Live(handle[2])
         /\ sas[handle[2]].n = Len(io.strings)
         /\ Contents(hp, sas, handle[2]) = io.strings
         /\ Contents(hp, sas, handle[1]) = io.strings
    /\ io.phase = "rewritten" => io.file2 = io.file

\* The array of four strings, two of them longer than the buffer the reader
\* starts with, has been written, read and written again.
C1_Witness ==
  /\ io.kind = "array"
  /\ io.phase = "rewritten"
  /\ Len(io.strings) = 4
  /\ Len(io.strings[3]) = 2 * L_BUF_SIZE
  /\ Contents(hp, sas, handle[2]) = io.strings
  /\ io.file2 = io.file

\* ------------------------------------------------------------------------
\* C9 as stated: for every stream that does not begin, after optional white
\* space, with the text "Sarray Version <V>", <V> the integer
\* SARRAY_VERSION_NUMBER (here in any spelling: white space before it, a
\* sign, leading zeros), sarrayReadStream returns NULL and no array is
\* created.
\* ------------------------------------------------------------------------
BeginsWith(s, pos, text) ==
  /\ pos + Len(text) - 1 <= Len(s)
  /\ SubSeq(s, pos, pos + Len(text) - 1) = text

\* "Sarray Version"
HeaderText == <<83, 97, 114, 114, 97, 121, 32, 86, 101, 114, 115, 105, 111, 110>>
\* "Sarray", "Version"
SarrayText == <<83, 97, 114, 114, 97, 121>>
VersionText == <<86, 101, 114, 115, 105, 111, 110>>

IsVersionNumber(s, pos) ==
  LET d == ScanInt(s, pos) IN d.ok /\ d.val = SARRAY_VERSION_NUMBER

BeginsWithHeaderText(s) ==
  LET p == SkipSpace(s, 1)
  IN BeginsWith(s, p, HeaderText) /\ IsVersionNumber(s, p + Len(HeaderText))

NothingCreated == handle[2] = NULL /\ sas = <<>> /\ hp = <<>>

C9_Original ==
  io.kind = "header" /\ io.phase = "read" /\ ~BeginsWithHeaderText(io.file) => NothingCreated

\* ------------------------------------------------------------------------
\* C9 as the code has it: sarrayReadStream returns NULL, and no array is
\* created, for every stream that is not made of optional white space, the
\* word "Sarray", optional white space, the word "Version", optional white
\* space and a decimal integer equal to SARRAY_VERSION_NUMBER; white space of
\* any kind and length, none included, may stand between the words and
\* before the number, and such a stream is not rejected for its header.
\* ------------------------------------------------------------------------
HeaderAccepted(s) ==
  LET p1 == SkipSpace(s, 1)
      p2 == SkipSpace(s, p1 + Len(SarrayText))
  IN /\ BeginsWith(s, p1, SarrayText)
     /\ BeginsWith(s, p2, VersionText)
     /\ IsVersionNumber(s, p2 + Len(VersionText))

C9_HeaderRejected ==
  io.kind = "header" /\ io.phase = "read" =>
    IF HeaderAccepted(io.file) THEN handle[2] # NULL ELSE NothingCreated

\* A stream of the wrong version ("Sarray Version 2") has been rejected.
C9_Witness ==
  /\ io.kind = "header"
  /\ io.phase = "read"
  /\ BeginsWith(io.file, 1, HeaderText \o <<32, 50>>)
  /\ NothingCreated

\* ------------------------------------------------------------------------
\* C10: for every stream with a valid version header whose content disagrees
\* with what it declares (no or no parsable "Number of strings" line, fewer
\* records than declared, a declared length that is not the length present,
\* an index or length that does not parse, an early end), sarrayReadStream
\* reports an error and returns no array.
\* ------------------------------------------------------------------------
Disagreements ==
  { "count line missing", "count unparsable", "fewer records", "length too long",
    "length too short", "length unparsable", "index unparsable", "ends early" }

C10_NoSilentTruncation ==
  io.kind \in Disagreements /\ io.phase = "read" => handle[2] = NULL

\* ------------------------------------------------------------------------
\* C11: after sarrayAddString(sa, x, L_COPY) returns 0 the new last element
\* is a block of its own that holds the bytes x held at the call, and the
\* caller's buffer is as it was before the call; when the caller later
\* overwrites or frees a buffer it owns, every element stored in an array
\* keeps its bytes.  After sarrayAddString(sa, x, L_INSERT) returns 0 the new
\* last element is the very buffer x, and no block is allocated.
\* ------------------------------------------------------------------------
C11_Add(h, string, copyflag) ==
  LET sa == handle[h]
      q == sas'[sa].array[sas[sa].n + 1]
  IN /\ sas'[sa].n = sas[sa].n + 1
     /\ IF copyflag = L_COPY
          THEN /\ q = Len(hp) + 1
               /\ Len(hp') = Len(hp) + 1
               /\ q # string.ptr
               /\ hp'[q] = [val |-> string.val, frees |-> 0]
               /\ \A p \in 1..Len(hp) : hp'[p] = hp[p]
          ELSE /\ q = string.ptr
               /\ hp' = hp

C11_Later ==
  /\ sas' = sas
  /\ \A s \in LiveSlots : hp'[SlotPtr(s)] = hp[SlotPtr(s)]

C11_IndependentCopy ==
  [][/\ \A h \in Handles, copyflag \in {L_INSERT, L_COPY}, string \in CallerStrings :
          (last'.op = "AddString" /\ last'.ret = 0 /\ AddStringCall(h, string, copyflag))
            => C11_Add(h, string, copyflag)
     /\ last'.op \in {"CallerWrite", "CallerFree"} => C11_Later]_vars

\* The caller has overwritten the buffer it had added a copy of: the buffer
\* holds "b", the array's element still holds "a".
C11_Witness ==
  /\ last.op = "CallerWrite"
  /\ Len(hp) = 2
  /\ owned = {1}
  /\ hp[1].val = <<98>>
  /\ \E sa \in 1..Len(sas) :
        /\ Live(sa)
        /\ sas[sa].n = 1
        /\ sas[sa].array[1] = 2
        /\ hp[2] = [val |-> <<97>>, frees |-> 0]

\* ------------------------------------------------------------------------
\* C12: sarrayRemoveString(sa, i) on an array of length n with 0 <= i < n
\* returns the element that was at index i, makes the length n - 1, leaves
\* the elements below i where they were, moves each element at j > i to
\* j - 1, and changes neither capacity nor refcount nor any string; with
\* i < 0 or i >= n (every call on an empty array included) it returns NULL
\* and changes nothing.
\* ------------------------------------------------------------------------
C12_Removed(sa, index) ==
  LET n == sas[sa].n
  IN /\ last'.ret = sas[sa].array[index + 1]
     /\ sas'[sa].n = n - 1
     /\ \A j \in 0..(index - 1) : sas'[sa].array[j + 1] = sas[sa].array[j + 1]
     /\ \A j \in (index + 1)..(n - 1) : sas'[sa].array[j] = sas[sa].array[j + 1]
     /\ sas'[sa].nalloc = sas[sa].nalloc
     /\ sas'[sa].refcount = sas[sa].refcount
     /\ hp' = hp

C12_Refused ==
  /\ last'.ret = NULL
  /\ sas' = sas
  /\ hp' = hp

C12_RemoveAt ==
  [][\A h \in Handles, index \in RemoveIndexes :
       (last'.op = "RemoveString" /\ RemoveStringCall(h, index)) =>
          IF handle[h] # NULL /\ 0 <= index /\ index < sas[handle[h]].n
            THEN C12_Removed(handle[h], index)
            ELSE C12_Refused]_vars

\* The middle string of three was removed: the caller holds it, and the two
\* that remain are the former first and last, in that order.
C12_Witness ==
  /\ last.op = "RemoveString"
  /\ last.ret # NULL
  /\ \E sa \in 1..Len(sas) :
        /\ Live(sa)
        /\ sas[sa].n = 2
        /\ sas[sa].array[1] < last.ret
        /\ last.ret < sas[sa].array[2]
        /\ sas[sa].array[3] = sas[sa].array[2]

\* ------------------------------------------------------------------------
\* C13: for an array of length n, first with 0 <= first < n, count >= 0 with
\* first + count <= n and addnlflag in {0, 1, 2}, sarrayToStringRange returns
\* the elements first .. first + count - 1 (first .. n - 1 when count is 0)
\* in index order, each followed by the separator of addnlflag (none, '\n',
\* ' '), so that its length is the sum of the element lengths plus, with a
\* separator, the number of elements; for first outside [0, n) it returns
\* NULL, as sarrayToString does on an empty array.  The array is left as it
\* was.
\* ------------------------------------------------------------------------
Separator(addnlflag) ==
  IF addnlflag = 1 THEN <<NL>> ELSE IF addnlflag = 2 THEN <<SP>> ELSE <<>>

RECURSIVE Joined(_, _, _, _)
Joined(strings, from, to, sep) ==
  IF from > to THEN <<>> ELSE strings[from] \o sep \o Joined(strings, from + 1, to, sep)

RECURSIVE SumOfLengths(_, _, _)
SumOfLengths(strings, from, to) ==
  IF from > to THEN 0 ELSE Len(strings[from]) + SumOfLengths(strings, from + 1, to)

C13_Result(first, count, addnlflag) ==
  LET to == IF count = 0 THEN Len(io.strings) ELSE first + count
  IN /\ last.ret # NULL
     /\ hp[last.ret].val = Joined(io.strings, first + 1, to, Separator(addnlflag))
     /\ Len(hp[last.ret].val) = SumOfLengths(io.strings, first + 1, to)
                                  + (IF addnlflag = 0 THEN 0 ELSE to - first)

C13_InClaim ==
  /\ io.nstrings >= 0
  /\ io.first + io.nstrings <= Len(io.strings)
  /\ io.addnlflag \in {0, 1, 2}

C13_ToStringRange ==
  io.phase = "joined" =>
    /\ Contents(hp, sas, handle[1]) = io.strings
    /\ IF io.first < 0 \/ io.first >= Len(io.strings)
         THEN last.ret = NULL
         ELSE C13_InClaim => C13_Result(io.first, io.nstrings, io.addnlflag)

\* The last two of the strings "a", "", "bc" were joined with newlines:
\* "\nbc\n".
C13_Witness ==
  /\ io.phase = "joined"
  /\ last.op = "ToStringRange"
  /\ io.strings = << <<97>>, <<>>, <<98, 99>> >>
  /\ io.first = 1 /\ io.nstrings = 2 /\ io.addnlflag = 1
  /\ hp[last.ret].val = <<NL, 98, 99, NL>>

\* ------------------------------------------------------------------------
\* C14: sarrayCreateLinesFromString(text, 1) yields, in order, every segment
\* of text that ends at a '\n' (the empty ones included), then what follows
\* the last '\n' when that is not empty; sarrayCreateLinesFromString(text, 0)
\* yields that sequence without its empty elements.  The storage is sized
\* from the number of '\n' in text (50 slots when there is none) and doubles
\* as often as the elements need, so that length <= capacity.
\* ------------------------------------------------------------------------
Newlines(text) == { p \in 1..Len(text) : text[p] = NL }

\* The position of the k-th '\n' of text; 0 for k = 0
NewlineAt(text, k) ==
  IF k = 0 THEN 0
  ELSE CHOOSE p \in Newlines(text) : Cardinality({ q \in Newlines(text) : q <= p }) = k

LinesOf(text) ==
  LET k == Cardinality(Newlines(text))
      ended == [j \in 1..k |->
                  SubSeq(text, NewlineAt(text, j - 1) + 1, NewlineAt(text, j) - 1)]
      rest == SubSeq(text, NewlineAt(text, k) + 1, Len(text))
  IN IF rest = <<>> THEN ended ELSE Append(ended, rest)

NotEmpty(string) == string # <<>>

C14_Capacity(sa, text) ==
  LET nsub == Cardinality(Newlines(text))
  IN /\ sas[sa].n <= sas[sa].nalloc
     /\ sas[sa].nalloc = Doubled(IF nsub = 0 THEN INITIAL_PTR_ARRAYSIZE ELSE nsub, sas[sa].n)

C14_FromLines ==
  io.phase = "lines" =>
    /\ handle[1] # NULL
    /\ Contents(hp, sas, handle[1]) =
         (IF io.blankflag # 0 THEN LinesOf(io.text)
          ELSE SelectSeq(LinesOf(io.text), NotEmpty))
    /\ C14_Capacity(handle[1], io.text)

\* "a\n\nb" with blank lines kept: three elements where two '\n' were
\* counted, in storage that was doubled to four slots.
C14_Witness ==
  /\ io.phase = "lines"
  /\ io.blankflag = 1
  /\ io.text = <<97, NL, NL, 98>>
  /\ Contents(hp, sas, handle[1]) = << <<97>>, <<>>, <<98>> >>
  /\ sas[handle[1]].nalloc = 4

\* ------------------------------------------------------------------------
\* C15: sarrayCreateWordsFromString(text) yields exactly the maximal runs of
\* bytes other than space, tab and newline, in order of occurrence, none of
\* them empty (none at all for a text that is empty or all separators); the
\* number of elements equals the number of words the pre-scan counted, so
\* the storage made for that count (50 slots for a count of 0) never grows.
\* ------------------------------------------------------------------------
IsSeparator(c) == c \in {SP, TAB, NL}

\* The runs as <<first, last>> positions
WordRuns(text) ==
  { run \in (1..Len(text)) \X (1..Len(text)) :
      /\ run[1] <= run[2]
      /\ \A p \in run[1]..run[2] : ~IsSeparator(text[p])
      /\ run[1] = 1 \/ IsSeparator(text[run[1] - 1])
      /\ run[2] = Len(text) \/ IsSeparator(text[run[2] + 1]) }

WordsOf(text) ==
  LET runs == WordRuns(text)
      kth(k) == CHOOSE run \in runs :
                  Cardinality({ other \in runs : other[1] <= run[1] }) = k
  IN [k \in 1..Cardinality(runs) |-> SubSeq(text, kth(k)[1], kth(k)[2])]

C15_FromWords ==
  io.phase = "words" =>
    /\ handle[1] # NULL
    /\ Contents(hp, sas, handle[1]) = WordsOf(io.text)
    /\ \A k \in 1..sas[handle[1]].n : hp[sas[handle[1]].array[k]].val # <<>>
    /\ sas[handle[1]].n = CountWords(io.text, 0, FALSE, 0)
    /\ sas[handle[1]].nalloc = (IF sas[handle[1]].n = 0 THEN INITIAL_PTR_ARRAYSIZE
                                ELSE sas[handle[1]].n)

\* "  a  bb   c " became "a", "bb", "c" in storage of three slots.
C15_Witness ==
  /\ io.phase = "words"
  /\ io.text = <<32, 32, 97, 32, 32, 98, 98, 32, 32, 32, 99, 32>>
  /\ Contents(hp, sas, handle[1]) = << <<97>>, <<98, 98>>, <<99>> >>
  /\ sas[handle[1]].nalloc = 3

\* ------------------------------------------------------------------------
\* C16: sarrayClear returns 0 when it succeeds and 1 on error: called on an
\* array it returns 0, having set the length to zero and left capacity and
\* refcount as they were; called on NULL it returns 1 and changes nothing.
\* ------------------------------------------------------------------------
C16_Cleared(sa) ==
  /\ last'.ret = 0
  /\ sas'[sa].n = 0
  /\ sas'[sa].nalloc = sas[sa].nalloc
  /\ sas'[sa].refcount = sas[sa].refcount

C16_Refused ==
  /\ last'.ret = 1
  /\ sas' = sas
  /\ hp' = hp

C16_ClearStatus ==
  [][\A h \in Handles :
       (last'.op = "Clear" /\ ClearCall(h)) =>
          IF handle[h] = NULL THEN C16_Refused ELSE C16_Cleared(handle[h])]_vars

\* ------------------------------------------------------------------------
\* C17: for every array of words that hold no space and every linesize, the
\* lines of sarrayConvertWordsToLines give back the words: each line that is
\* not empty, cut at its single spaces after its trailing space is dropped,
\* gives its words, and each empty line stands for one empty word; taken in
\* order these are exactly the input words, none lost, doubled, split or
\* moved, with a line still in progress at the end of the input included.
\* ------------------------------------------------------------------------
HasNoSpace(word) == \A k \in 1..Len(word) : word[k] # SP

DropTrailingSpace(line) ==
  IF line # <<>> /\ line[Len(line)] = SP THEN SubSeq(line, 1, Len(line) - 1) ELSE line

Spaces(line) == { p \in 1..Len(line) : line[p] = SP }

\* The position of the k-th space of line; 0 for k = 0, past the end for one more
SpaceAt(line, k) ==
  IF k = 0 THEN 0
  ELSE IF k > Cardinality(Spaces(line)) THEN Len(line) + 1
  ELSE CHOOSE p \in Spaces(line) : Cardinality({ q \in Spaces(line) : q <= p }) = k

CutAtSpaces(line) ==
  [j \in 1..(Cardinality(Spaces(line)) + 1) |->
     SubSeq(line, SpaceAt(line, j - 1) + 1, SpaceAt(line, j) - 1)]

WordsOfLine(line) ==
  IF line = <<>> THEN << <<>> >> ELSE CutAtSpaces(DropTrailingSpace(line))

RECURSIVE WordsOfLines(_, _)
WordsOfLines(lines, k) ==
  IF k > Len(lines) THEN <<>> ELSE WordsOfLine(lines[k]) \o WordsOfLines(lines, k + 1)

C17_ReflowKeepsWords ==
  (io.phase = "reflowed" /\ \A k \in 1..Len(io.strings) : HasNoSpace(io.strings[k])) =>
    /\ handle[2] # NULL
    /\ WordsOfLines(Contents(hp, sas, handle[2]), 1) = io.strings
    /\ Contents(hp, sas, handle[1]) = io.strings

\* "bb", "", "a", "cccc", at linesize 5: the lines are "bb ", "", "a ", and
\* "cccc ", which was still in progress when the words ended.
C17_Witness ==
  /\ io.phase = "reflowed"
  /\ io.linesize = 5
  /\ io.strings = << <<98, 98>>, <<>>, <<97>>, <<99, 99, 99, 99>> >>
  /\ Contents(hp, sas, handle[2]) =
       << <<98, 98, SP>>, <<>>, <<97, SP>>, <<99, 99, 99, 99, SP>> >>

\* ------------------------------------------------------------------------
\* C18: for every array of words and every linesize, the lines of
\* sarrayConvertWordsToLines are the words cut into consecutive groups, one
\* group per line and one space after each word, such that every line holds
\* one word or is at most linesize long; a word that is not empty starts a
\* new line after a line in progress only when the line with the word and
\* its space would be longer than linesize; and a word whose length plus
\* one is more than linesize is alone on its line, copied without a space
\* when no line was in progress.  ["aa","bb","cc"] at linesize 6 gives
\* ["aa bb ", "cc "].
\* ------------------------------------------------------------------------
IsLongWord(k) == io.strings[k] # <<>> /\ Len(io.strings[k]) + 1 > io.linesize

\* Whether a line is in progress once the first k words are placed
RECURSIVE LineInProgress(_)
LineInProgress(k) ==
  IF k = 0 THEN FALSE
  ELSE IF io.strings[k] = <<>> THEN FALSE
  ELSE IF ~LineInProgress(k - 1) /\ IsLongWord(k) THEN FALSE
  ELSE TRUE

\* cuts holds the positions after which a line ends; the group that starts
\* at word s ends at GroupEnd(cuts, s)
GroupEnd(cuts, s) ==
  CHOOSE e \in cuts \cup {Len(io.strings)} :
    e >= s /\ \A k \in cuts \cup {Len(io.strings)} : k >= s => e <= k

RECURSIVE WithSpaces(_, _)
WithSpaces(s, e) ==
  IF s > e THEN <<>> ELSE io.strings[s] \o <<SP>> \o WithSpaces(s + 1, e)

IsVerbatim(s, e) == s = e /\ IsLongWord(s) /\ ~LineInProgress(s - 1)

GroupLine(s, e) ==
  IF s = e /\ io.strings[s] = <<>> THEN <<>>
  ELSE IF IsVerbatim(s, e) THEN io.strings[s]
  ELSE WithSpaces(s, e)

RECURSIVE GroupLines(_, _)
GroupLines(cuts, s) ==
  IF s > Len(io.strings) THEN <<>>
  ELSE <<GroupLine(s, GroupEnd(cuts, s))>> \o GroupLines(cuts, GroupEnd(cuts, s) + 1)

GroupStarts(cuts) == { s \in 1..Len(io.strings) : s = 1 \/ (s - 1) \in cuts }

WidthRule(cuts) ==
  \A s \in GroupStarts(cuts) :
    LET e == GroupEnd(cuts, s)
    IN /\ s = e \/ Len(GroupLine(s, e)) <= io.linesize
       /\ s < e => \A k \in s..e : io.strings[k] # <<>>
       /\ (s > 1 /\ io.strings[s] # <<>> /\ LineInProgress(s - 1)) =>
            \E p \in GroupStarts(cuts) :
              /\ GroupEnd(cuts, p) = s - 1
              /\ Len(WithSpaces(p, s - 1)) + Len(io.strings[s]) + 1 > io.linesize
       /\ \A k \in s..e : IsLongWord(k) => s = e

C18_WidthRule ==
  io.phase = "reflowed" =>
    /\ handle[2] # NULL
    /\ \E cuts \in SUBSET (1..(Len(io.strings) - 1)) :
         /\ Contents(hp, sas, handle[2]) = GroupLines(cuts, 1)
         /\ WidthRule(cuts)

C18_Witness ==
  /\ io.phase = "reflowed"
  /\ io.linesize = 6
  /\ io.strings = ReflowExample
  /\ Contents(hp, sas, handle[2]) = << <<97, 97, SP, 98, 98, SP>>, <<99, 99, SP>> >>

\* "cccc", "a" at linesize 4: the long word is copied as it is, with no line
\* in progress before it, and "a" goes on a line of its own
C18_LongWord ==
  /\ io.phase = "reflowed"
  /\ io.linesize = 4
  /\ io.strings = << <<99, 99, 99, 99>>, <<97>> >>
  /\ Contents(hp, sas, handle[2]) = << <<99, 99, 99, 99>>, <<97, SP>> >>

\* ------------------------------------------------------------------------
\* C19: for every two strings of bytes 1..255, stringCompareLexical returns
\* 1 exactly when str1 is greater than str2 in the order that compares the
\* first differing byte as an unsigned value, a byte of 0x80 or more being
\* greater than every ASCII byte, and takes the longer string as greater
\* when one is a strict prefix of the other; it returns 0 otherwise, equal
\* strings included.
\* ------------------------------------------------------------------------
\* The first position at which the strings differ; one past the shorter
\* string when there is none
FirstDifference(s1, s2) ==
  CHOOSE i \in 1..(Min(Len(s1), Len(s2)) + 1) :
    /\ \A k \in 1..(i - 1) : s1[k] = s2[k]
    /\ i <= Min(Len(s1), Len(s2)) => s1[i] # s2[i]

UnsignedGreater(s1, s2) ==
  LET i == FirstDifference(s1, s2)
  IN IF i <= Min(Len(s1), Len(s2)) THEN s1[i] > s2[i] ELSE Len(s1) > Len(s2)

C19_UnsignedByteOrder ==
  io.phase = "compared" =>
    io.ret = (IF UnsignedGreater(io.str1, io.str2) THEN 1 ELSE 0)

\* What holds in every build: 0 for equal strings, never 1 both ways, and
\* the unsigned order whenever plain char is unsigned or the differing
\* bytes are on the same side of 0x80
C19_PlainCharOrder ==
  io.phase = "compared" =>
    /\ io.ret \in {0, 1}
    /\ io.str1 = io.str2 => io.ret = 0
    /\ io.ret = 1 => stringCompareLexical(io.str2, io.str1) = 0
    /\ LET i == FirstDifference(io.str1, io.str2)
       IN (\/ ~charIsSigned
           \/ i > Min(Len(io.str1), Len(io.str2))
           \/ (io.str1[i] >= 128) = (io.str2[i] >= 128)) =>
            io.ret = (IF UnsignedGreater(io.str1, io.str2) THEN 1 ELSE 0)

\* "\xff" against "a" where plain char is signed: 0 is returned
C19_SignedByte ==
  /\ io.phase = "compared"
  /\ charIsSigned
  /\ io.str1 = <<255>>
  /\ io.str2 = <<97>>
  /\ io.ret = 0

\* ------------------------------------------------------------------------
\* C20: when sarrayAddString is called on a full array and reallocNew gets
\* no memory in sarrayExtendArray, or when stringNew gets no memory for an
\* L_COPY, the call returns non-zero and the array's elements, length and
\* capacity are as before the call; nothing is stored through a missing
\* array and no NULL element lies within the length.
\* ------------------------------------------------------------------------
C20_GrowthFailed == io.before.n >= io.before.nalloc /\ ~io.alloc.array

C20_CopyFailed == io.copyflag = L_COPY /\ ~io.alloc.string

C20_FailureContained ==
  (io.phase \in {"added", "crashed"} /\ (C20_GrowthFailed \/ C20_CopyFailed)) =>
    /\ io.phase # "crashed"
    /\ last.ret # 0
    /\ sas[handle[1]] = io.before
    /\ \A k \in 1..sas[handle[1]].n : sas[handle[1]].array[k] # NULL

\* A full array of two strings and no memory for its growth: the array
\* pointer is NULL, the length is 3 and 0 was returned
C20_GrowthFailure ==
  /\ io.phase = "added"
  /\ io.before.n = 2
  /\ io.before.nalloc = 2
  /\ ~io.alloc.array
  /\ sas[handle[1]].array = NoArray
  /\ sas[handle[1]].n = 3
  /\ last.ret = 0

\* No memory for the copy: the NULL is stored and counted, 0 is returned
C20_CopyFailure ==
  /\ io.phase = "added"
  /\ io.copyflag = L_COPY
  /\ io.before.n < io.before.nalloc
  /\ ~io.alloc.string
  /\ sas[handle[1]].n = io.before.n + 1
  /\ sas[handle[1]].array[sas[handle[1]].n] = NULL
  /\ last.ret = 0

====
